---- MODULE Spec2Model ----
(***************************************************************************)
(* cloud-bootstrap: one run of the command (main) against the cloud        *)
(* provider.  The run loads the configuration document, checks the         *)
(* credentials, and then reconciles buckets, repositories, access          *)
(* principals with their policies, and database instances, one provider    *)
(* call at a time.  Every provider call is two steps: Issue puts the       *)
(* request in flight, the action named after the call takes the provider's *)
(* response and continues as the code after the call does.                 *)
(***************************************************************************)
EXTENDS Integers, Sequences, FiniteSets, TLC

(***************************************************************************)
(* Bounds of the model.                                                    *)
(***************************************************************************)
\* most resources (of all kinds together) in a configuration of several resources
MaxResources == 2
\* most policies of one access principal
MaxPolicies == 2
\* number of policies the provider returns in one page of ListPolicies
PageSize == 1

VARIABLES
    file,   \* the configuration document named by -config
    flags,  \* the command line toggles -dry-run and -check-creds
    run,    \* the process: position, locals, call in flight, history, exit status
    twin,   \* a second process with the same inputs (idle in Spec)
    aws     \* what exists at the provider

vars == <<file, flags, run, twin, aws>>

(***************************************************************************)
(* Values.  Names of principals and policies are character sequences,      *)
(* because the code concatenates them; a nil pointer is a record of its    *)
(* own; an optional request field is a field the record has or has not.    *)
(***************************************************************************)
NoConfig == [nil |-> TRUE]
NoCORS == [nil |-> TRUE]
NoCall == [op |-> "none"]
NoError == [nil |-> TRUE]
DefaultRegion == "us-east-1"

Regions == {"us-east-1", "us-west-2"}
UserNames == {<<"a">>, <<"a", "-", "b">>}
PolicyNames == {<<"c">>, <<"b", "-", "c">>}
\* a local-scope policy of the account that no configuration names
OtherPolicy == <<"x">>

SeqsUpTo(S, n) == UNION {[1..k -> S] : k \in 0..n}

Range(f) == {f[k] : k \in DOMAIN f}

Min(a, b) == IF a <= b THEN a ELSE b

\* the first n elements of a list, for every n up to a bound
Prefixes(list, n) == {SubSeq(list, 1, k) : k \in 0..Min(n, Len(list))}

\* sequences without repetition over S, of length at most n
DistinctSeqs(S, n) == {q \in SeqsUpTo(S, n) : Cardinality(Range(q)) = Len(q)}

(***************************************************************************)
(* types.go: the configuration records.                                    *)
(***************************************************************************)
\* a Go int (64 bits) beyond the range of the checker's integers, by its halves:
\* the integer wraps * 2^32 + low, with low in the int32 range
Wide(wraps, low) == [wraps |-> wraps, low |-> low]

\* max_age_seconds is 3000, or 2^32 + 3000
CORSBlocks ==
    {[AllowedOrigins |-> <<"https://example.com">>,
      AllowedMethods |-> <<<<"g", "e", "t">>, <<"P", "U", "T">>>>,
      AllowedHeaders |-> <<"*">>,
      ExposeHeaders |-> <<"ETag">>,
      MaxAgeSeconds |-> Wide(wraps, 3000)] : wraps \in {0, 1}}

S3Bucket ==
    [Name : {"b1"},
     Versioning : {"enabled", "suspended"},
     Encryption : {"", "AES256", "aws:kms"},
     CORS : {NoCORS} \cup CORSBlocks,
     Policy : {"", "{bucket-policy}"}]

ECRRepository ==
    [Name : {"r1"}, LifecyclePolicy : {"", "{lifecycle}"}]

IAMPolicy ==
    [Name : PolicyNames, Description : {"access"}, PolicyDocument : {"{policy}"}]

IAMUser ==
    [Name : UserNames, Policies : SeqsUpTo(IAMPolicy, MaxPolicies)]

RDSInstance ==
    [Identifier : {"d1"},
     Engine : {"postgres"},
     EngineVersion : {"", "15"},
     InstanceClass : {"db.t3.micro"},
     StorageType : {"", "gp2"},
     AllocatedStorage : {20, 50},
     DBName : {<<"app">>},
     MasterUsername : {"", "admin"},
     MasterPassword : {"", "secret"},
     PubliclyAccessible : BOOLEAN,
     BackupRetentionPeriod : {0, 7},
     MultiAZ : BOOLEAN,
     SkipFinalSnapshot : BOOLEAN]

\* the lists of records used in configurations of several resources: distinct
\* names, and for buckets also a name that occurs twice
PlainBucket(n) ==
    [Name |-> n, Versioning |-> "enabled", Encryption |-> "", CORS |-> NoCORS,
     Policy |-> ""]

PlainBuckets ==
    Prefixes(<<PlainBucket("b1"), PlainBucket("b2"), PlainBucket("b1")>>, MaxResources)
    \cup Prefixes(<<PlainBucket("b1"), PlainBucket("b1"), PlainBucket("b2")>>,
                  MaxResources)

PlainRepo(n) == [Name |-> n, LifecyclePolicy |-> "{lifecycle}"]

PlainRepos ==
    Prefixes(<<PlainRepo("r1"), PlainRepo("r2"), PlainRepo("r3")>>, MaxResources)

PlainPolicy(n) == [Name |-> n, Description |-> "access", PolicyDocument |-> "{policy}"]

\* the first two have policies of the same derived full name
PlainUsers ==
    Prefixes(<<[Name |-> <<"a">>, Policies |-> <<PlainPolicy(<<"b", "-", "c">>)>>],
               [Name |-> <<"a", "-", "b">>, Policies |-> <<PlainPolicy(<<"c">>)>>],
               [Name |-> <<"a">>, Policies |-> <<PlainPolicy(<<"c">>)>>]>>,
             MaxResources)

PlainInstance(n) ==
    [Identifier |-> n, Engine |-> "postgres", EngineVersion |-> "15",
     InstanceClass |-> "db.t3.micro", StorageType |-> "", AllocatedStorage |-> 20,
     DBName |-> <<"app">>, MasterUsername |-> "admin", MasterPassword |-> "secret",
     PubliclyAccessible |-> FALSE, BackupRetentionPeriod |-> 0, MultiAZ |-> FALSE,
     SkipFinalSnapshot |-> TRUE]

PlainInstances ==
    Prefixes(<<PlainInstance("d1"), PlainInstance("d2"), PlainInstance("d3")>>,
             MaxResources)

Config(r, b, e, u, d) ==
    [Region |-> r, S3Buckets |-> b, ECRRepositories |-> e, IAMUsers |-> u,
     RDSInstances |-> d]

Resources(c) ==
    Len(c.S3Buckets) + Len(c.ECRRepositories) + Len(c.IAMUsers) + Len(c.RDSInstances)

\* one resource, with every combination of its fields; the region decides
\* nothing but the location constraint of a bucket
SingleConfigs ==
    {Config(r, <<b>>, <<>>, <<>>, <<>>) : r \in Regions, b \in S3Bucket}
    \cup {Config(DefaultRegion, <<>>, <<e>>, <<>>, <<>>) : e \in ECRRepository}
    \cup {Config(DefaultRegion, <<>>, <<>>, <<u>>, <<>>) : u \in IAMUser}
    \cup {Config(DefaultRegion, <<>>, <<>>, <<>>, <<d>>) : d \in RDSInstance}

\* up to MaxResources resources of any kinds, plain ones
SeveralConfigs ==
    {c \in [Region : {DefaultRegion},
            S3Buckets : PlainBuckets,
            ECRRepositories : PlainRepos,
            IAMUsers : PlainUsers,
            RDSInstances : PlainInstances] :
        Resources(c) <= MaxResources}

Configs == SingleConfigs \cup SeveralConfigs

(***************************************************************************)
(* The configuration document and LoadConfig (bootstrap.go).  A document   *)
(* is unreadable, malformed, or YAML with the top-level keys it gives.     *)
(***************************************************************************)
Unreadable == [kind |-> "unreadable"]
Malformed == [kind |-> "malformed"]

\* the YAML text of a configuration; a section without entries is left out
Document(c) ==
    [kind |-> "yaml",
     keys |-> [region |-> c.Region]
              @@ (IF c.S3Buckets # <<>> THEN [s3_buckets |-> c.S3Buckets] ELSE <<>>)
              @@ (IF c.ECRRepositories # <<>>
                  THEN [ecr_repositories |-> c.ECRRepositories] ELSE <<>>)
              @@ (IF c.IAMUsers # <<>> THEN [iam_users |-> c.IAMUsers] ELSE <<>>)
              @@ (IF c.RDSInstances # <<>>
                  THEN [rds_instances |-> c.RDSInstances] ELSE <<>>)]

Documents == {Unreadable, Malformed} \cup {Document(c) : c \in Configs}

\* (mutation: the tag of the repositories names another key than the document's)
Unmarshal_WrongTag(d) ==
    [Region |-> IF "region" \in DOMAIN d.keys THEN d.keys.region ELSE "",
     S3Buckets |-> IF "s3_buckets" \in DOMAIN d.keys THEN d.keys.s3_buckets ELSE <<>>,
     ECRRepositories |->
        IF "ecr_repos" \in DOMAIN d.keys THEN d.keys.ecr_repos ELSE <<>>,
     IAMUsers |-> IF "iam_users" \in DOMAIN d.keys THEN d.keys.iam_users ELSE <<>>,
     RDSInstances |->
        IF "rds_instances" \in DOMAIN d.keys THEN d.keys.rds_instances ELSE <<>>]

\* yaml.Unmarshal into a zero Config: a key the document gives sets its field,
\* every other field keeps its zero value
Unmarshal(d) ==
    [Region |-> IF "region" \in DOMAIN d.keys THEN d.keys.region ELSE "",
     S3Buckets |-> IF "s3_buckets" \in DOMAIN d.keys THEN d.keys.s3_buckets ELSE <<>>,
     ECRRepositories |->
        IF "ecr_repositories" \in DOMAIN d.keys THEN d.keys.ecr_repositories ELSE <<>>,
     IAMUsers |-> IF "iam_users" \in DOMAIN d.keys THEN d.keys.iam_users ELSE <<>>,
     RDSInstances |->
        IF "rds_instances" \in DOMAIN d.keys THEN d.keys.rds_instances ELSE <<>>]

(***************************************************************************)
(* Helpers of the code.                                                    *)
(***************************************************************************)
\* fmt.Sprintf("%s-%s", userName, policy.Name)
FullPolicyName(userName, policy) == userName \o <<"-">> \o policy.Name

\* the identifier the provider gives the policy of that name
PolicyArn(fullName) == <<"arn:aws:iam::policy/">> \o fullName

\* the largest int32
MaxInt32 == 2147483647

\* int32(x) of a Go int: x itself in the int32 range, wrapped around outside it
Int32(x) ==
    IF -MaxInt32 - 1 <= x /\ x <= MaxInt32 THEN x
    ELSE ((x + MaxInt32 + 1) % (2 * (MaxInt32 + 1))) - MaxInt32 - 1

\* int32(x) of a Go int given by its halves: the low 32 bits
ToInt32(x) == Wide(0, x.low)

\* err.Error() of a provider error: the operation's text and the error code
ErrorText(o) == <<"operation error", o.code>>

\* strings.Contains(err.Error(), code)
Contains(text, code) == \E k \in DOMAIN text : text[k] = code

UpperChar(ch) ==
    CASE ch = "g" -> "G" [] ch = "e" -> "E" [] ch = "t" -> "T"
      [] ch = "p" -> "P" [] ch = "u" -> "U" [] ch = "o" -> "O" [] ch = "s" -> "S"
      [] OTHER -> ch

\* strings.ToUpper
ToUpper(str) == [k \in DOMAIN str |-> UpperChar(str[k])]

\* convertToMethodsEnum: a new list, every method upper-cased
convertToMethodsEnum(methods) == [k \in DOMAIN methods |-> ToUpper(methods[k])]

\* fmt.Errorf("<msg> <name>: %w", err)
Errorf(msg, name, o) == [msgs |-> <<msg>>, name |-> name, cause |-> o.code]

\* fmt.Errorf("<msg>: %w", err)
Wrap(msg, e) == [e EXCEPT !.msgs = <<msg>> \o @]

(***************************************************************************)
(* The process.  pc names the statement the process is at; for a provider  *)
(* call it is the call's name, and pending holds the request while the     *)
(* call is in flight.  calls and outs are the history: every request       *)
(* issued, with the list position of its resource (and of its policy), and *)
(* every response.                                                         *)
(***************************************************************************)
Start ==
    [pc |-> "LoadConfig", config |-> NoConfig, arn |-> "", region |-> "",
     i |-> 0, j |-> 0, policyArn |-> <<>>, pending |-> NoCall,
     returned |-> "", ret |-> NoError,
     calls |-> <<>>, outs |-> <<>>, log |-> <<>>, err |-> NoError,
     exit |-> "running"]

\* log.Fatalf: the message goes to the diagnostic stream, the process exits 1
Fatalf(s, e) == [s EXCEPT !.pc = "exit", !.err = e, !.exit = 1]

\* main returns: the process exits 0
Return0(s) == [s EXCEPT !.pc = "exit", !.exit = 0]

Bucket(s) == s.config.S3Buckets[s.i]
Repo(s) == s.config.ECRRepositories[s.i]
User(s) == s.config.IAMUsers[s.i]
Policy(s) == s.config.IAMUsers[s.i].Policies[s.j]
Instance(s) == s.config.RDSInstances[s.i]

(***************************************************************************)
(* The reconcilers return to ProvisionResources: pc is "ProvisionResources"*)
(* with the reconciler that returned and the error it returned.            *)
(***************************************************************************)
ReconcilerReturned(s, reconciler, e) ==
    [s EXCEPT !.pc = "ProvisionResources", !.returned = reconciler, !.ret = e,
              !.i = 0, !.j = 0]

ReconcilerFailed(s, reconciler, e) == ReconcilerReturned(s, reconciler, e)

ReconcilerDone(s, reconciler) == ReconcilerReturned(s, reconciler, NoError)

(***************************************************************************)
(* CreateS3Buckets: the loop over the buckets, and the configuration steps *)
(* of one bucket.                                                          *)
(***************************************************************************)
\* the loop is at bucket k, or past the last one
NextBucket(s, k) ==
    IF k <= Len(s.config.S3Buckets)
    THEN [s EXCEPT !.pc = "HeadBucket", !.i = k]
    ELSE ReconcilerDone(s, "CreateS3Buckets")

ConfigurePolicy(s) ==
    IF Bucket(s).Policy # ""
    THEN [s EXCEPT !.pc = "PutBucketPolicy"]
    ELSE NextBucket(s, s.i + 1)


\* (mutation: the methods are upper-cased in the list of the spec itself)
ConfigureCORS_InPlace(s) ==
    IF Bucket(s).CORS # NoCORS
    THEN [s EXCEPT !.pc = "PutBucketCors",
                   !.config.S3Buckets[s.i].CORS.AllowedMethods = convertToMethodsEnum(@)]
    ELSE ConfigurePolicy(s)

ConfigureCORS(s) ==
    IF Bucket(s).CORS # NoCORS
    THEN [s EXCEPT !.pc = "PutBucketCors"]
    ELSE ConfigurePolicy(s)

ConfigureEncryption(s) ==
    IF Bucket(s).Encryption # ""
    THEN [s EXCEPT !.pc = "PutBucketEncryption"]
    ELSE ConfigureCORS(s)

\* (mutation: any versioning value given in the spec leads to the call)
ConfigureVersioning_AnyValue(s) ==
    IF Bucket(s).Versioning # ""
    THEN [s EXCEPT !.pc = "PutBucketVersioning"]
    ELSE ConfigureEncryption(s)

\* the bucket exists or was created
ConfigureVersioning(s) ==
    IF Bucket(s).Versioning = "enabled"
    THEN [s EXCEPT !.pc = "PutBucketVersioning"]
    ELSE ConfigureEncryption(s)

(***************************************************************************)
(* CreateECRRepositories.                                                  *)
(***************************************************************************)

\* (mutation: the repository is created without asking whether it exists)
NextRepo_NoQuery(s, k) ==
    IF k <= Len(s.config.ECRRepositories)
    THEN [s EXCEPT !.pc = "CreateRepository", !.i = k]
    ELSE ReconcilerDone(s, "CreateECRRepositories")

NextRepo(s, k) ==
    IF k <= Len(s.config.ECRRepositories)
    THEN [s EXCEPT !.pc = "DescribeRepositories", !.i = k]
    ELSE ReconcilerDone(s, "CreateECRRepositories")

\* the repository exists or was created
SetLifecyclePolicy(s) ==
    IF Repo(s).LifecyclePolicy # ""
    THEN [s EXCEPT !.pc = "PutLifecyclePolicy"]
    ELSE NextRepo(s, s.i + 1)

(***************************************************************************)
(* CreateIAMUsersAndPolicies: the loop over the principals and, for each,  *)
(* the loop over its policies.                                             *)
(***************************************************************************)
NextUser(s, k) ==
    IF k <= Len(s.config.IAMUsers)
    THEN [s EXCEPT !.pc = "GetUser", !.i = k, !.j = 0]
    ELSE ReconcilerDone(s, "CreateIAMUsersAndPolicies")

NextPolicy(s, k) ==
    IF k <= Len(User(s).Policies)
    THEN [s EXCEPT !.pc = "ListPolicies", !.j = k]
    ELSE NextUser(s, s.i + 1)

(***************************************************************************)
(* ManageRDSInstances: the loop over the instances.                        *)
(***************************************************************************)
NextInstance(s, k) ==
    IF k <= Len(s.config.RDSInstances)
    THEN [s EXCEPT !.pc = "DescribeDBInstances", !.i = k]
    ELSE ReconcilerDone(s, "ManageRDSInstances")

\* nothing to do without instances
ManageRDSInstances(s) ==
    IF Len(s.config.RDSInstances) = 0
    THEN ReconcilerDone(s, "ManageRDSInstances")
    ELSE NextInstance(s, 1)

(***************************************************************************)
(* ProvisionResources: the reconcilers in their order, the first error     *)
(* wrapped and returned; and main's handling of the result.                *)
(***************************************************************************)
\* the text ProvisionResources puts before the error of a reconciler
FailureText(reconciler) ==
    CASE reconciler = "CreateS3Buckets" -> "failed to create S3 buckets"
      [] reconciler = "CreateECRRepositories" -> "failed to create ECR repositories"
      [] reconciler = "CreateIAMUsersAndPolicies" ->
            "failed to create IAM users and policies"
      [] reconciler = "ManageRDSInstances" -> "failed to manage RDS instances"

\* ProvisionResources is called
ProvisionResources(s) == NextBucket(s, 1)

\* ProvisionResources returned e to main
AfterProvisionResources(s, e) ==
    IF e # NoError
    THEN Fatalf(s, Wrap("Failed to provision resources", e))
    ELSE Return0(s)

\* (mutation: the principals are reconciled before the repositories)
AfterReconciler_PrincipalsFirst(s) ==
    LET t == [s EXCEPT !.returned = "", !.ret = NoError] IN
    IF s.ret # NoError
    THEN AfterProvisionResources(t, Wrap(FailureText(s.returned), s.ret))
    ELSE CASE s.returned = "CreateS3Buckets" -> NextUser(t, 1)
           [] s.returned = "CreateIAMUsersAndPolicies" -> NextRepo(t, 1)
           [] s.returned = "CreateECRRepositories" -> ManageRDSInstances(t)
           [] s.returned = "ManageRDSInstances" -> AfterProvisionResources(t, NoError)

\* a reconciler returned to ProvisionResources
AfterReconciler(s) ==
    LET t == [s EXCEPT !.returned = "", !.ret = NoError] IN
    IF s.ret # NoError
    THEN AfterProvisionResources(t, Wrap(FailureText(s.returned), s.ret))
    ELSE CASE s.returned = "CreateS3Buckets" -> NextRepo(t, 1)
           [] s.returned = "CreateECRRepositories" -> NextUser(t, 1)
           [] s.returned = "CreateIAMUsersAndPolicies" -> ManageRDSInstances(t)
           [] s.returned = "ManageRDSInstances" -> AfterProvisionResources(t, NoError)

(***************************************************************************)
(* The requests, as the code builds them at each call site.                *)
(***************************************************************************)
HeadBucketInput(s) == [op |-> "HeadBucket", Bucket |-> Bucket(s).Name]

\* the location constraint is set only outside the default region
CreateBucketInput(s) ==
    [op |-> "CreateBucket", Bucket |-> Bucket(s).Name]
    @@ (IF s.region # DefaultRegion THEN [LocationConstraint |-> s.region] ELSE <<>>)

PutBucketVersioningInput(s) ==
    [op |-> "PutBucketVersioning", Bucket |-> Bucket(s).Name, Status |-> "Enabled"]

\* the algorithm of the request is the constant types.ServerSideEncryptionAes256
PutBucketEncryptionInput(s) ==
    [op |-> "PutBucketEncryption", Bucket |-> Bucket(s).Name, SSEAlgorithm |-> "AES256"]

PutBucketCorsInput(s) ==
    [op |-> "PutBucketCors", Bucket |-> Bucket(s).Name,
     CORSRules |-> <<[AllowedOrigins |-> Bucket(s).CORS.AllowedOrigins,
                      AllowedMethods |-> convertToMethodsEnum(Bucket(s).CORS.AllowedMethods),
                      AllowedHeaders |-> Bucket(s).CORS.AllowedHeaders,
                      ExposeHeaders |-> Bucket(s).CORS.ExposeHeaders,
                      MaxAgeSeconds |-> ToInt32(Bucket(s).CORS.MaxAgeSeconds)]>>]

PutBucketPolicyInput(s) ==
    [op |-> "PutBucketPolicy", Bucket |-> Bucket(s).Name, Policy |-> Bucket(s).Policy]

DescribeRepositoriesInput(s) ==
    [op |-> "DescribeRepositories", RepositoryNames |-> <<Repo(s).Name>>]

CreateRepositoryInput(s) == [op |-> "CreateRepository", RepositoryName |-> Repo(s).Name]

PutLifecyclePolicyInput(s) ==
    [op |-> "PutLifecyclePolicy", RepositoryName |-> Repo(s).Name,
     LifecyclePolicyText |-> Repo(s).LifecyclePolicy]

GetUserInput(s) == [op |-> "GetUser", UserName |-> User(s).Name]

CreateUserInput(s) == [op |-> "CreateUser", UserName |-> User(s).Name]

\* no MaxItems and no Marker: the first page of the local-scope policies
ListPoliciesInput(s) == [op |-> "ListPolicies", Scope |-> "Local"]

CreatePolicyVersionInput(s) ==
    [op |-> "CreatePolicyVersion", PolicyArn |-> s.policyArn,
     PolicyDocument |-> Policy(s).PolicyDocument, SetAsDefault |-> TRUE]

CreatePolicyInput(s) ==
    [op |-> "CreatePolicy", PolicyName |-> FullPolicyName(User(s).Name, Policy(s)),
     Description |-> Policy(s).Description,
     PolicyDocument |-> Policy(s).PolicyDocument]

AttachUserPolicyInput(s) ==
    [op |-> "AttachUserPolicy", UserName |-> User(s).Name, PolicyArn |-> s.policyArn]

DescribeDBInstancesInput(s) ==
    [op |-> "DescribeDBInstances", DBInstanceIdentifier |-> Instance(s).Identifier]

\* the fields of the create request that are set whatever the spec holds: the
\* required fields and the two flags; the database name is replaced when the
\* final snapshot is not skipped
CreateDBInstanceFixed(inst) ==
    [op |-> "CreateDBInstance",
     DBInstanceIdentifier |-> inst.Identifier,
     Engine |-> inst.Engine,
     DBInstanceClass |-> inst.InstanceClass,
     AllocatedStorage |-> Int32(inst.AllocatedStorage),
     DBName |-> IF inst.SkipFinalSnapshot
                THEN inst.DBName
                ELSE <<inst.Identifier, "-final-snapshot">>,
     PubliclyAccessible |-> inst.PubliclyAccessible,
     MultiAZ |-> inst.MultiAZ]

\* the optional fields of the create request but the engine version
CreateDBInstanceOptions(inst) ==
    (IF inst.StorageType # "" THEN [StorageType |-> inst.StorageType] ELSE <<>>)
    @@ (IF inst.MasterUsername # ""
        THEN [MasterUsername |-> inst.MasterUsername] ELSE <<>>)
    @@ (IF inst.MasterPassword # ""
        THEN [MasterUserPassword |-> inst.MasterPassword] ELSE <<>>)
    @@ (IF inst.BackupRetentionPeriod > 0
        THEN [BackupRetentionPeriod |-> Int32(inst.BackupRetentionPeriod)] ELSE <<>>)

\* (mutation: the engine version is sent even when the spec gives none)
CreateDBInstanceInput_AlwaysVersion(s) ==
    CreateDBInstanceFixed(Instance(s))
    @@ [EngineVersion |-> Instance(s).EngineVersion]
    @@ CreateDBInstanceOptions(Instance(s))

CreateDBInstanceInput(s) ==
    CreateDBInstanceFixed(Instance(s))
    @@ (IF Instance(s).EngineVersion # ""
        THEN [EngineVersion |-> Instance(s).EngineVersion] ELSE <<>>)
    @@ CreateDBInstanceOptions(Instance(s))

ModifyDBInstanceInput(s) ==
    [op |-> "ModifyDBInstance", DBInstanceIdentifier |-> Instance(s).Identifier,
     AllocatedStorage |-> Int32(Instance(s).AllocatedStorage), ApplyImmediately |-> TRUE]

GetCallerIdentityInput(s) == [op |-> "GetCallerIdentity"]

ProviderCalls ==
    {"GetCallerIdentity", "HeadBucket", "CreateBucket", "PutBucketVersioning",
     "PutBucketEncryption", "PutBucketCors", "PutBucketPolicy", "DescribeRepositories",
     "CreateRepository", "PutLifecyclePolicy", "GetUser", "CreateUser", "ListPolicies",
     "CreatePolicyVersion", "CreatePolicy", "AttachUserPolicy", "DescribeDBInstances",
     "CreateDBInstance", "ModifyDBInstance"}

\* the request of the call the process is at
Request(s) ==
    CASE s.pc = "GetCallerIdentity" -> GetCallerIdentityInput(s)
      [] s.pc = "HeadBucket" -> HeadBucketInput(s)
      [] s.pc = "CreateBucket" -> CreateBucketInput(s)
      [] s.pc = "PutBucketVersioning" -> PutBucketVersioningInput(s)
      [] s.pc = "PutBucketEncryption" -> PutBucketEncryptionInput(s)
      [] s.pc = "PutBucketCors" -> PutBucketCorsInput(s)
      [] s.pc = "PutBucketPolicy" -> PutBucketPolicyInput(s)
      [] s.pc = "DescribeRepositories" -> DescribeRepositoriesInput(s)
      [] s.pc = "CreateRepository" -> CreateRepositoryInput(s)
      [] s.pc = "PutLifecyclePolicy" -> PutLifecyclePolicyInput(s)
      [] s.pc = "GetUser" -> GetUserInput(s)
      [] s.pc = "CreateUser" -> CreateUserInput(s)
      [] s.pc = "ListPolicies" -> ListPoliciesInput(s)
      [] s.pc = "CreatePolicyVersion" -> CreatePolicyVersionInput(s)
      [] s.pc = "CreatePolicy" -> CreatePolicyInput(s)
      [] s.pc = "AttachUserPolicy" -> AttachUserPolicyInput(s)
      [] s.pc = "DescribeDBInstances" -> DescribeDBInstancesInput(s)
      [] s.pc = "CreateDBInstance" -> CreateDBInstanceInput(s)
      [] s.pc = "ModifyDBInstance" -> ModifyDBInstanceInput(s)

\* the call is issued: the request is in flight until the provider answers
Issued(s) ==
    [s EXCEPT !.pending = Request(s),
              !.calls = Append(@, [item |-> s.i, sub |-> s.j, req |-> Request(s)])]


(***************************************************************************)
(* The provider: what it can answer to a request, given what exists, and   *)
(* what a successful request changes.                                      *)
(***************************************************************************)
OK == [status |-> "ok"]
Err(code) == [status |-> "error", code |-> code]
Failed(o) == o.status = "error"

\* the instances a describe call can report: storage and status may be missing;
\* instance class and engine version are missing, or other than any spec has them
DBInstanceViews ==
    {sto @@ sta @@ cls :
        sto \in {<<>>} \cup {[AllocatedStorage |-> n] : n \in {20, 50}},
        sta \in {<<>>} \cup {[DBInstanceStatus |-> t] : t \in {"available", "modifying"}},
        cls \in {<<>>, [DBInstanceClass |-> "db.m5.large", EngineVersion |-> "14"]}}

\* the first page of the account's local-scope policies
FirstPage(a) ==
    [k \in 1..Min(PageSize, Len(a.policies)) |->
        [PolicyName |-> a.policies[k], Arn |-> PolicyArn(a.policies[k])]]

Outcomes(a, r) ==
    CASE r.op = "GetCallerIdentity" ->
            {OK @@ [Arn |-> "arn:aws:iam::user/me"], Err("InvalidClientTokenId")}
      [] r.op = "HeadBucket" ->
            IF r.Bucket \in a.buckets THEN {OK, Err("Forbidden")} ELSE {Err("NotFound")}
      [] r.op = "CreateBucket" ->
            IF r.Bucket \in a.buckets
            THEN {Err("BucketAlreadyOwnedByYou")}
            ELSE {OK, Err("AccessDenied")}
      [] r.op \in {"PutBucketVersioning", "PutBucketEncryption", "PutBucketCors",
                   "PutBucketPolicy", "PutLifecyclePolicy", "ModifyDBInstance"} ->
            {OK, Err("AccessDenied")}
      [] r.op = "DescribeRepositories" ->
            IF r.RepositoryNames[1] \in a.repos
            THEN {OK, Err("AccessDenied")}
            ELSE {Err("RepositoryNotFoundException")}
      [] r.op = "CreateRepository" ->
            IF r.RepositoryName \in a.repos
            THEN {Err("RepositoryAlreadyExistsException")}
            ELSE {OK, Err("AccessDenied")}
      [] r.op = "GetUser" ->
            IF r.UserName \in a.users THEN {OK, Err("AccessDenied")}
            ELSE {Err("NoSuchEntity")}
      [] r.op = "CreateUser" ->
            IF r.UserName \in a.users
            THEN {Err("EntityAlreadyExists")}
            ELSE {OK, Err("AccessDenied")}
      [] r.op = "ListPolicies" ->
            {OK @@ [Policies |-> FirstPage(a),
                    IsTruncated |-> Len(a.policies) > PageSize],
             Err("AccessDenied")}
      [] r.op = "CreatePolicyVersion" -> {OK, Err("LimitExceeded")}
      [] r.op = "CreatePolicy" ->
            IF r.PolicyName \in Range(a.policies)
            THEN {Err("EntityAlreadyExists")}
            ELSE {OK @@ [Arn |-> PolicyArn(r.PolicyName)], Err("AccessDenied")}
      [] r.op = "AttachUserPolicy" ->
            {OK, Err("EntityAlreadyExists"), Err("AccessDenied")}
      [] r.op = "DescribeDBInstances" ->
            {OK @@ [DBInstances |-> <<>>], Err("AccessDenied")}
            \cup (IF r.DBInstanceIdentifier \in a.dbs
                  THEN {OK @@ [DBInstances |-> <<v>>] : v \in DBInstanceViews}
                  ELSE {Err("DBInstanceNotFound")})
      [] r.op = "CreateDBInstance" ->
            IF r.DBInstanceIdentifier \in a.dbs
            THEN {Err("DBInstanceAlreadyExists")}
            ELSE {OK, Err("AccessDenied")}

\* the attribute of a resource that a successful request sets, with its value
Setting(res, attr, value) == [attr |-> attr, fact |-> <<res, value>>]

SettingOf(r) ==
    CASE r.op = "PutBucketVersioning" -> Setting(r.Bucket, "versioning", r.Status)
      [] r.op = "PutBucketEncryption" -> Setting(r.Bucket, "encryption", r.SSEAlgorithm)
      [] r.op = "PutBucketCors" -> Setting(r.Bucket, "cors", r.CORSRules)
      [] r.op = "PutBucketPolicy" -> Setting(r.Bucket, "policy", r.Policy)
      [] r.op = "PutLifecyclePolicy" ->
            Setting(r.RepositoryName, "lifecycle", r.LifecyclePolicyText)
      [] r.op = "CreatePolicy" ->
            Setting(PolicyArn(r.PolicyName), "document", r.PolicyDocument)
      [] r.op = "CreatePolicyVersion" ->
            Setting(r.PolicyArn, "document", r.PolicyDocument)
      [] r.op = "AttachUserPolicy" -> Setting(r.UserName, "attached", r.PolicyArn)

SettingCalls ==
    {"PutBucketVersioning", "PutBucketEncryption", "PutBucketCors", "PutBucketPolicy",
     "PutLifecyclePolicy", "CreatePolicy", "CreatePolicyVersion", "AttachUserPolicy"}

NoSettings ==
    [versioning |-> {}, encryption |-> {}, cors |-> {}, policy |-> {},
     lifecycle |-> {}, document |-> {}, attached |-> {}]

\* the settings after a new one is made: the new value of an attribute replaces
\* the old one; an attached policy is added to the attached ones
Apply(settings, f) ==
    [settings EXCEPT
        ![f.attr] = {g \in @ : f.attr = "attached" \/ g[1] # f.fact[1]} \cup {f.fact}]

Effect(a, r, o) ==
    IF Failed(o) THEN a
    ELSE LET b == IF r.op \in SettingCalls
                  THEN [a EXCEPT !.settings = Apply(@, SettingOf(r))] ELSE a
         IN
         CASE r.op = "CreateBucket" -> [b EXCEPT !.buckets = @ \cup {r.Bucket}]
           [] r.op = "CreateRepository" -> [b EXCEPT !.repos = @ \cup {r.RepositoryName}]
           [] r.op = "CreateUser" -> [b EXCEPT !.users = @ \cup {r.UserName}]
           [] r.op = "CreatePolicy" -> [b EXCEPT !.policies = Append(@, r.PolicyName)]
           [] r.op = "CreateDBInstance" ->
                [b EXCEPT !.dbs = @ \cup {r.DBInstanceIdentifier}]
           [] OTHER -> b

(***************************************************************************)
(* What the code does when a call returns o.  s is the process with the    *)
(* response received.                                                      *)
(***************************************************************************)
\* (mutation: the dry-run toggle is not looked at)
AfterGetCallerIdentity_IgnoreDryRun(s, o) ==
    IF Failed(o)
    THEN Fatalf(s, Wrap("AWS credential check failed",
                        Errorf("failed to validate AWS credentials", "", o)))
    ELSE LET t == [s EXCEPT !.arn = o.Arn] IN
         IF flags.checkCreds THEN Return0(t) ELSE [t EXCEPT !.pc = "NewBootstrapper"]

\* (mutation: a failed credential check is only reported)
AfterGetCallerIdentity_IgnoreFailure(s, o) ==
    LET t == IF Failed(o) THEN s ELSE [s EXCEPT !.arn = o.Arn] IN
    IF flags.checkCreds THEN Return0(t)
    ELSE IF flags.dryRun THEN [t EXCEPT !.pc = "printPlannedChanges"]
    ELSE [t EXCEPT !.pc = "NewBootstrapper"]

\* main: the credential check returned
AfterGetCallerIdentity(s, o) ==
    IF Failed(o)
    THEN Fatalf(s, Wrap("AWS credential check failed",
                        Errorf("failed to validate AWS credentials", "", o)))
    ELSE LET t == [s EXCEPT !.arn = o.Arn] IN
         IF flags.checkCreds THEN Return0(t)
         ELSE IF flags.dryRun THEN [t EXCEPT !.pc = "printPlannedChanges"]
         ELSE [t EXCEPT !.pc = "NewBootstrapper"]

\* CreateS3Buckets
\* (mutation: the result of the existence check is ignored)
AfterHeadBucket_AlwaysCreate(s, o) == [s EXCEPT !.pc = "CreateBucket"]

\* (mutation: a bucket that exists is deleted, to be created anew)
AfterHeadBucket_Recreate(s, o) ==
    IF Failed(o) THEN [s EXCEPT !.pc = "CreateBucket"] ELSE [s EXCEPT !.pc = "DeleteBucket"]


\* (mutation: a bucket that exists is left as it is)
AfterHeadBucket_SkipExisting(s, o) ==
    IF Failed(o) THEN [s EXCEPT !.pc = "CreateBucket"] ELSE NextBucket(s, s.i + 1)

AfterHeadBucket(s, o) ==
    IF Failed(o) THEN [s EXCEPT !.pc = "CreateBucket"] ELSE ConfigureVersioning(s)

\* (mutation: a failed creation is only warned about)
AfterCreateBucket_Tolerant(s, o) == ConfigureVersioning(s)


\* (mutation: a creation rejected because the bucket exists counts as done)
AfterCreateBucket_AcceptExisting(s, o) ==
    IF Failed(o) /\ o.code # "BucketAlreadyOwnedByYou"
    THEN ReconcilerFailed(s, "CreateS3Buckets",
                          Errorf("failed to create bucket", Bucket(s).Name, o))
    ELSE ConfigureVersioning(s)

AfterCreateBucket(s, o) ==
    IF Failed(o)
    THEN ReconcilerFailed(s, "CreateS3Buckets",
                          Errorf("failed to create bucket", Bucket(s).Name, o))
    ELSE ConfigureVersioning(s)

\* (mutation: strict mode, a failed configuration step ends the run)
AfterPutBucketVersioning_Strict(s, o) ==
    IF Failed(o)
    THEN ReconcilerFailed(s, "CreateS3Buckets",
                          Errorf("failed to enable versioning", Bucket(s).Name, o))
    ELSE ConfigureEncryption(s)

AfterPutBucketVersioning(s, o) == ConfigureEncryption(s)

AfterPutBucketEncryption(s, o) == ConfigureCORS(s)

AfterPutBucketCors(s, o) == ConfigurePolicy(s)


\* (mutation: a bucket policy call that failed is tried once more)
AfterPutBucketPolicy_Retry(s, o) ==
    IF Failed(o)
       /\ Cardinality({m \in DOMAIN s.calls : s.calls[m].req.op = "PutBucketPolicy"
                                              /\ s.calls[m].item = s.i}) < 2
    THEN [s EXCEPT !.pc = "PutBucketPolicy"]
    ELSE NextBucket(s, s.i + 1)

AfterPutBucketPolicy(s, o) == NextBucket(s, s.i + 1)

\* CreateECRRepositories
AfterDescribeRepositories(s, o) ==
    IF Failed(o) THEN [s EXCEPT !.pc = "CreateRepository"] ELSE SetLifecyclePolicy(s)

AfterCreateRepository(s, o) ==
    IF Failed(o)
    THEN ReconcilerFailed(s, "CreateECRRepositories",
                          Errorf("failed to create ECR repository", Repo(s).Name, o))
    ELSE SetLifecyclePolicy(s)

AfterPutLifecyclePolicy(s, o) == NextRepo(s, s.i + 1)

\* CreateIAMUsersAndPolicies

\* (mutation: the user is created only when the query reports it absent)
AfterGetUser_OnlyWhenAbsent(s, o) ==
    IF Failed(o)
    THEN IF o.code = "NoSuchEntity"
         THEN [s EXCEPT !.pc = "CreateUser"]
         ELSE ReconcilerFailed(s, "CreateIAMUsersAndPolicies",
                               Errorf("failed to get IAM user", User(s).Name, o))
    ELSE NextPolicy(s, 1)

AfterGetUser(s, o) ==
    IF Failed(o) THEN [s EXCEPT !.pc = "CreateUser"] ELSE NextPolicy(s, 1)

AfterCreateUser(s, o) ==
    IF Failed(o)
    THEN ReconcilerFailed(s, "CreateIAMUsersAndPolicies",
                          Errorf("failed to create IAM user", User(s).Name, o))
    ELSE NextPolicy(s, 1)

\* the position of the first policy of that name in the list, 0 if there is none
FindPolicy(policies, fullName) ==
    IF \E k \in DOMAIN policies : policies[k].PolicyName = fullName
    THEN CHOOSE k \in DOMAIN policies :
            /\ policies[k].PolicyName = fullName
            /\ \A m \in 1..(k - 1) : policies[m].PolicyName # fullName
    ELSE 0

\* createIAMPolicy: the policies are listed
AfterListPolicies(s, o) ==
    IF Failed(o)
    THEN ReconcilerFailed(s, "CreateIAMUsersAndPolicies",
                          Errorf("failed to list IAM policies", <<>>, o))
    ELSE LET k == FindPolicy(o.Policies, FullPolicyName(User(s).Name, Policy(s))) IN
         IF k # 0
         THEN [s EXCEPT !.pc = "CreatePolicyVersion", !.policyArn = o.Policies[k].Arn]
         ELSE [s EXCEPT !.pc = "CreatePolicy"]

\* (mutation: a failure to update the policy is tolerated, the policy is attached)
AfterCreatePolicyVersion_Tolerant(s, o) == [s EXCEPT !.pc = "AttachUserPolicy"]

\* createIAMPolicy returns the identifier of the listed policy, or the error
AfterCreatePolicyVersion(s, o) ==
    IF Failed(o)
    THEN ReconcilerFailed(s, "CreateIAMUsersAndPolicies",
                          Errorf("failed to update IAM policy",
                                 FullPolicyName(User(s).Name, Policy(s)), o))
    ELSE [s EXCEPT !.pc = "AttachUserPolicy"]

\* createIAMPolicy returns the identifier of the new policy, or the error
AfterCreatePolicy(s, o) ==
    IF Failed(o)
    THEN ReconcilerFailed(s, "CreateIAMUsersAndPolicies",
                          Errorf("failed to create IAM policy",
                                 FullPolicyName(User(s).Name, Policy(s)), o))
    ELSE [s EXCEPT !.pc = "AttachUserPolicy", !.policyArn = o.Arn]

\* (mutation: an attach failure other than "already attached" is returned)
AfterAttachUserPolicy_Strict(s, o) ==
    IF Failed(o) /\ ~Contains(ErrorText(o), "EntityAlreadyExists")
    THEN ReconcilerFailed(s, "CreateIAMUsersAndPolicies",
                          Errorf("failed to attach policy", Policy(s).Name, o))
    ELSE NextPolicy([s EXCEPT !.policyArn = <<>>], s.j + 1)

\* already attached, a warning, or attached: the next policy
AfterAttachUserPolicy(s, o) == NextPolicy([s EXCEPT !.policyArn = <<>>], s.j + 1)

\* (mutation: a describe error other than "not found" skips the instance)
AfterDescribeDBInstances_SkipOnError(s, o) ==
    IF Failed(o)
    THEN IF Contains(ErrorText(o), "DBInstanceNotFound")
         THEN [s EXCEPT !.pc = "CreateDBInstance"]
         ELSE NextInstance(s, s.i + 1)
    ELSE NextInstance(s, s.i + 1)
\* (mutation: the storage is modified only when the spec asks for more)
AfterDescribeDBInstances_GrowOnly(s, o) ==
    IF Failed(o)
    THEN IF Contains(ErrorText(o), "DBInstanceNotFound")
         THEN [s EXCEPT !.pc = "CreateDBInstance"]
         ELSE ReconcilerFailed(s, "ManageRDSInstances",
                               Errorf("error checking RDS instance",
                                      Instance(s).Identifier, o))
    ELSE IF Len(o.DBInstances) > 0
         THEN LET existingInstance == o.DBInstances[1]
                  currentStorage ==
                      IF "AllocatedStorage" \in DOMAIN existingInstance
                      THEN existingInstance.AllocatedStorage ELSE 0
                  instanceStatus ==
                      IF "DBInstanceStatus" \in DOMAIN existingInstance
                      THEN existingInstance.DBInstanceStatus ELSE ""
              IN  IF currentStorage < Int32(Instance(s).AllocatedStorage)
                  THEN IF instanceStatus # "available"
                       THEN NextInstance(s, s.i + 1)
                       ELSE [s EXCEPT !.pc = "ModifyDBInstance"]
                  ELSE NextInstance(s, s.i + 1)
         ELSE NextInstance(s, s.i + 1)

\* (mutation: a different instance class is a reason to modify the instance, too)
AfterDescribeDBInstances_AlsoClass(s, o) ==
    IF Failed(o)
    THEN IF Contains(ErrorText(o), "DBInstanceNotFound")
         THEN [s EXCEPT !.pc = "CreateDBInstance"]
         ELSE ReconcilerFailed(s, "ManageRDSInstances",
                               Errorf("error checking RDS instance",
                                      Instance(s).Identifier, o))
    ELSE IF Len(o.DBInstances) > 0
         THEN LET existingInstance == o.DBInstances[1]
                  currentStorage ==
                      IF "AllocatedStorage" \in DOMAIN existingInstance
                      THEN existingInstance.AllocatedStorage ELSE 0
                  currentInstanceClass ==
                      IF "DBInstanceClass" \in DOMAIN existingInstance
                      THEN existingInstance.DBInstanceClass ELSE ""
                  instanceStatus ==
                      IF "DBInstanceStatus" \in DOMAIN existingInstance
                      THEN existingInstance.DBInstanceStatus ELSE ""
              IN  IF \/ currentStorage # Int32(Instance(s).AllocatedStorage)
                     \/ (currentInstanceClass # ""
                         /\ currentInstanceClass # Instance(s).InstanceClass)
                  THEN IF instanceStatus # "available"
                       THEN NextInstance(s, s.i + 1)
                       ELSE [s EXCEPT !.pc = "ModifyDBInstance"]
                  ELSE NextInstance(s, s.i + 1)
         ELSE NextInstance(s, s.i + 1)

\* ManageRDSInstances: the describe call returned
AfterDescribeDBInstances(s, o) ==
    IF Failed(o)
    THEN IF Contains(ErrorText(o), "DBInstanceNotFound")
         THEN [s EXCEPT !.pc = "CreateDBInstance"]
         ELSE ReconcilerFailed(s, "ManageRDSInstances",
                               Errorf("error checking RDS instance",
                                      Instance(s).Identifier, o))
    ELSE IF Len(o.DBInstances) > 0
         THEN LET existingInstance == o.DBInstances[1]
                  currentStorage ==
                      IF "AllocatedStorage" \in DOMAIN existingInstance
                      THEN existingInstance.AllocatedStorage ELSE 0
                  instanceStatus ==
                      IF "DBInstanceStatus" \in DOMAIN existingInstance
                      THEN existingInstance.DBInstanceStatus ELSE ""
              IN  IF currentStorage # Int32(Instance(s).AllocatedStorage)
                  THEN IF instanceStatus # "available"
                       THEN NextInstance(s, s.i + 1)
                       ELSE [s EXCEPT !.pc = "ModifyDBInstance"]
                  ELSE NextInstance(s, s.i + 1)
         ELSE NextInstance(s, s.i + 1)


\* (mutation: a failed creation is only logged and the loop goes on)
AfterCreateDBInstance_Tolerant(s, o) == NextInstance(s, s.i + 1)

AfterCreateDBInstance(s, o) ==
    IF Failed(o)
    THEN ReconcilerFailed(s, "ManageRDSInstances",
                          Errorf("failed to create RDS instance",
                                 Instance(s).Identifier, o))
    ELSE NextInstance(s, s.i + 1)

AfterModifyDBInstance(s, o) == NextInstance(s, s.i + 1)

\* a line of the standard output: its marker, its text, the names it prints
Line(mark, text, names) == [mark |-> mark, text |-> text, names |-> names]
Success(text, names) == Line("ok", text, names)
Warning(text, names) == Line("warning", text, names)

\* what the code prints when a bucket call returns
PrintedBucket(s, o) ==
    LET name == <<Bucket(s).Name>> IN
    CASE s.pending.op = "HeadBucket" ->
            IF Failed(o) THEN <<>> ELSE <<Success("Bucket already exists", name)>>
      [] s.pending.op = "CreateBucket" ->
            IF Failed(o) THEN <<>> ELSE <<Success("Created bucket", name)>>
      [] s.pending.op = "PutBucketVersioning" ->
            IF Failed(o) THEN <<Warning("failed to enable versioning for bucket", name)>>
            ELSE <<Success("Enabled versioning for bucket", name)>>
      [] s.pending.op = "PutBucketEncryption" ->
            IF Failed(o) THEN <<Warning("failed to configure encryption for bucket", name)>>
            ELSE <<Success("Configured encryption for bucket", name)>>
      [] s.pending.op = "PutBucketCors" ->
            IF Failed(o) THEN <<Warning("failed to configure CORS for bucket", name)>>
            ELSE <<Success("Configured CORS for bucket", name)>>
      [] s.pending.op = "PutBucketPolicy" ->
            IF Failed(o) THEN <<Warning("failed to set policy for bucket", name)>>
            ELSE <<Success("Set policy for bucket", name)>>

\* what the code prints when a repository call returns
PrintedRepo(s, o) ==
    LET name == <<Repo(s).Name>> IN
    CASE s.pending.op = "DescribeRepositories" ->
            IF Failed(o) THEN <<>> ELSE <<Success("ECR repository already exists", name)>>
      [] s.pending.op = "CreateRepository" ->
            IF Failed(o) THEN <<>> ELSE <<Success("Created ECR repository", name)>>
      [] s.pending.op = "PutLifecyclePolicy" ->
            IF Failed(o)
            THEN <<Warning("failed to set lifecycle policy for ECR repository", name)>>
            ELSE <<Success("Set lifecycle policy for ECR repository", name)>>

\* what the code prints when a call for a user or a policy returns
PrintedUser(s, o) ==
    LET name == <<User(s).Name>> IN
    CASE s.pending.op = "GetUser" ->
            IF Failed(o) THEN <<>> ELSE <<Success("IAM user already exists", name)>>
      [] s.pending.op = "CreateUser" ->
            IF Failed(o) THEN <<>> ELSE <<Success("Created IAM user", name)>>
      [] s.pending.op = "ListPolicies" ->
            IF Failed(o)
                  \/ FindPolicy(o.Policies, FullPolicyName(User(s).Name, Policy(s))) = 0
            THEN <<>>
            ELSE <<Success("IAM policy already exists, updating policy document",
                           <<FullPolicyName(User(s).Name, Policy(s))>>)>>
      [] s.pending.op = "CreatePolicyVersion" ->
            IF Failed(o) THEN <<>>
            ELSE <<Success("Updated IAM policy",
                           <<FullPolicyName(User(s).Name, Policy(s))>>)>>
      [] s.pending.op = "CreatePolicy" ->
            IF Failed(o) THEN <<>>
            ELSE <<Success("Created IAM policy",
                           <<FullPolicyName(User(s).Name, Policy(s))>>)>>
      [] s.pending.op = "AttachUserPolicy" ->
            IF Failed(o)
            THEN IF Contains(ErrorText(o), "EntityAlreadyExists")
                 THEN <<Success("Policy already attached to user",
                                <<Policy(s).Name, User(s).Name>>)>>
                 ELSE <<Warning("failed to attach policy to user",
                                <<Policy(s).Name, User(s).Name>>)>>
            ELSE <<Success("Attached policy to user", <<Policy(s).Name, User(s).Name>>)>>

\* what the code prints when a call for a database instance returns
PrintedInstance(s, o) ==
    LET name == <<Instance(s).Identifier>> IN
    CASE s.pending.op = "DescribeDBInstances" ->
            IF Failed(o) \/ Len(o.DBInstances) = 0 THEN <<>>
            ELSE LET existingInstance == o.DBInstances[1]
                     currentStorage ==
                         IF "AllocatedStorage" \in DOMAIN existingInstance
                         THEN existingInstance.AllocatedStorage ELSE 0
                     instanceStatus ==
                         IF "DBInstanceStatus" \in DOMAIN existingInstance
                         THEN existingInstance.DBInstanceStatus ELSE ""
                 IN  IF currentStorage # Int32(Instance(s).AllocatedStorage)
                     THEN IF instanceStatus # "available"
                          THEN <<Warning("Cannot modify RDS instance", name)>>
                          ELSE <<>>
                     ELSE <<Success("RDS instance already exists with correct storage size",
                                    name)>>
      [] s.pending.op = "CreateDBInstance" ->
            IF Failed(o) THEN <<>> ELSE <<Success("Created RDS instance", name)>>
      [] s.pending.op = "ModifyDBInstance" ->
            IF Failed(o) THEN <<Warning("failed to modify storage for RDS instance", name)>>
            ELSE <<Success("Modified storage for RDS instance", name)>>

\* the marked lines printed when the call in flight returns o
Printed(s, o) ==
    CASE s.pending.op \in {"HeadBucket", "CreateBucket", "PutBucketVersioning",
                           "PutBucketEncryption", "PutBucketCors", "PutBucketPolicy"} ->
            PrintedBucket(s, o)
      [] s.pending.op \in {"DescribeRepositories", "CreateRepository",
                           "PutLifecyclePolicy"} -> PrintedRepo(s, o)
      [] s.pending.op \in {"GetUser", "CreateUser", "ListPolicies", "CreatePolicyVersion",
                           "CreatePolicy", "AttachUserPolicy"} -> PrintedUser(s, o)
      [] s.pending.op \in {"DescribeDBInstances", "CreateDBInstance",
                           "ModifyDBInstance"} -> PrintedInstance(s, o)
      [] s.pending.op = "GetCallerIdentity" ->
            IF Failed(o) THEN <<>>
            ELSE <<Success("AWS credentials validated. Authenticated as", <<o.Arn>>)>>

\* the call returned o
Received(s, o) ==
    [s EXCEPT !.pending = NoCall, !.outs = Append(@, o), !.log = @ \o Printed(s, o)]

\* the process s takes the response o to its call in flight
Continue(s, o) ==
    LET t == Received(s, o) IN
    CASE s.pending.op = "GetCallerIdentity" -> AfterGetCallerIdentity(t, o)
      [] s.pending.op = "HeadBucket" -> AfterHeadBucket(t, o)
      [] s.pending.op = "CreateBucket" -> AfterCreateBucket(t, o)
      [] s.pending.op = "PutBucketVersioning" -> AfterPutBucketVersioning(t, o)
      [] s.pending.op = "PutBucketEncryption" -> AfterPutBucketEncryption(t, o)
      [] s.pending.op = "PutBucketCors" -> AfterPutBucketCors(t, o)
      [] s.pending.op = "PutBucketPolicy" -> AfterPutBucketPolicy(t, o)
      [] s.pending.op = "DescribeRepositories" -> AfterDescribeRepositories(t, o)
      [] s.pending.op = "CreateRepository" -> AfterCreateRepository(t, o)
      [] s.pending.op = "PutLifecyclePolicy" -> AfterPutLifecyclePolicy(t, o)
      [] s.pending.op = "GetUser" -> AfterGetUser(t, o)
      [] s.pending.op = "CreateUser" -> AfterCreateUser(t, o)
      [] s.pending.op = "ListPolicies" -> AfterListPolicies(t, o)
      [] s.pending.op = "CreatePolicyVersion" -> AfterCreatePolicyVersion(t, o)
      [] s.pending.op = "CreatePolicy" -> AfterCreatePolicy(t, o)
      [] s.pending.op = "AttachUserPolicy" -> AfterAttachUserPolicy(t, o)
      [] s.pending.op = "DescribeDBInstances" -> AfterDescribeDBInstances(t, o)
      [] s.pending.op = "CreateDBInstance" -> AfterCreateDBInstance(t, o)
      [] s.pending.op = "ModifyDBInstance" -> AfterModifyDBInstance(t, o)

(***************************************************************************)
(* The steps of main that are no provider call.                            *)
(***************************************************************************)
\* bootstrap.LoadConfig and main's check of its error
AfterLoadConfig(s, d) ==
    IF d.kind = "unreadable"
    THEN Fatalf(s, [msgs |-> <<"Failed to load configuration",
                               "error reading config file">>,
                    name |-> "", cause |-> "ENOENT"])
    ELSE IF d.kind = "malformed"
    THEN Fatalf(s, [msgs |-> <<"Failed to load configuration", "error parsing YAML">>,
                    name |-> "", cause |-> "yaml"])
    ELSE [s EXCEPT !.config = Unmarshal(d), !.pc = "CheckAWSCredentials"]

\* CheckAWSCredentials up to the identity call: loading the SDK configuration
AfterLoadDefaultConfig(s, ok) ==
    IF ok THEN [s EXCEPT !.pc = "GetCallerIdentity"]
    ELSE Fatalf(s, [msgs |-> <<"AWS credential check failed",
                               "failed to load AWS config">>,
                    name |-> "", cause |-> "config"])

\* NewBootstrapper and main's check of its error
AfterNewBootstrapper(s, ok) ==
    IF ok THEN ProvisionResources([s EXCEPT !.region = s.config.Region])
    ELSE Fatalf(s, [msgs |-> <<"Failed to initialize bootstrapper">>,
                    name |-> "", cause |-> "credentials"])

\* a line of the plan: its indentation, its text, the values it prints
PlanLine(indent, text, names) ==
    [mark |-> "", indent |-> indent, text |-> text, names |-> names]

RECURSIVE Flatten(_)
Flatten(seqs) == IF seqs = <<>> THEN <<>> ELSE Head(seqs) \o Flatten(Tail(seqs))

\* (mutation: the policy line is printed for a bucket with a CORS block)
BucketPlan_PolicyByCORS(bucket) ==
    <<PlanLine(2, "-", <<bucket.Name>>)>>
    \o (IF bucket.Versioning = "enabled"
        THEN <<PlanLine(4, "- Versioning: enabled", <<>>)>> ELSE <<>>)
    \o (IF bucket.Encryption # ""
        THEN <<PlanLine(4, "- Encryption:", <<bucket.Encryption>>)>> ELSE <<>>)
    \o (IF bucket.CORS # NoCORS
        THEN <<PlanLine(4, "- CORS configuration would be applied", <<>>)>> ELSE <<>>)
    \o (IF bucket.CORS # NoCORS
        THEN <<PlanLine(4, "- Bucket policy would be applied", <<>>)>> ELSE <<>>)

\* the lines printed for one bucket
BucketPlan(bucket) ==
    <<PlanLine(2, "-", <<bucket.Name>>)>>
    \o (IF bucket.Versioning = "enabled"
        THEN <<PlanLine(4, "- Versioning: enabled", <<>>)>> ELSE <<>>)
    \o (IF bucket.Encryption # ""
        THEN <<PlanLine(4, "- Encryption:", <<bucket.Encryption>>)>> ELSE <<>>)
    \o (IF bucket.CORS # NoCORS
        THEN <<PlanLine(4, "- CORS configuration would be applied", <<>>)>> ELSE <<>>)
    \o (IF bucket.Policy # ""
        THEN <<PlanLine(4, "- Bucket policy would be applied", <<>>)>> ELSE <<>>)

\* the lines printed for one repository
RepoPlan(repo) ==
    <<PlanLine(2, "-", <<repo.Name>>)>>
    \o (IF repo.LifecyclePolicy # ""
        THEN <<PlanLine(4, "- Lifecycle policy would be applied", <<>>)>> ELSE <<>>)

\* the lines printed for one user
UserPlan(user) ==
    <<PlanLine(2, "-", <<user.Name>>)>>
    \o (IF Len(user.Policies) > 0
        THEN <<PlanLine(4, "Policies:", <<>>)>>
             \o [k \in DOMAIN user.Policies |->
                    PlanLine(4, "-", <<user.Policies[k].Name,
                                       user.Policies[k].Description>>)]
        ELSE <<>>)

\* the report of printPlannedChanges: buckets, repositories and users; the
\* database instances are not in it
PlannedChanges(config) ==
    <<PlanLine(0, "The following resources would be provisioned:", <<>>)>>
    \o (IF Len(config.S3Buckets) > 0
        THEN <<PlanLine(0, "S3 Buckets:", <<>>)>>
             \o Flatten([k \in DOMAIN config.S3Buckets |->
                            BucketPlan(config.S3Buckets[k])])
        ELSE <<>>)
    \o (IF Len(config.ECRRepositories) > 0
        THEN <<PlanLine(0, "ECR Repositories:", <<>>)>>
             \o Flatten([k \in DOMAIN config.ECRRepositories |->
                            RepoPlan(config.ECRRepositories[k])])
        ELSE <<>>)
    \o (IF Len(config.IAMUsers) > 0
        THEN <<PlanLine(0, "IAM Users:", <<>>)>>
             \o Flatten([k \in DOMAIN config.IAMUsers |->
                            UserPlan(config.IAMUsers[k])])
        ELSE <<>>)

\* printPlannedChanges, then main returns
AfterPrintPlannedChanges(s) ==
    Return0([s EXCEPT !.log = @ \o PlannedChanges(s.config)])

(***************************************************************************)
(* The actions of the run.                                                 *)
(***************************************************************************)
LoadConfig ==
    /\ run.pc = "LoadConfig"
    /\ run' = AfterLoadConfig(run, file)
    /\ UNCHANGED <<file, flags, twin, aws>>

CheckAWSCredentials ==
    /\ run.pc = "CheckAWSCredentials"
    /\ \E ok \in BOOLEAN : run' = AfterLoadDefaultConfig(run, ok)
    /\ UNCHANGED <<file, flags, twin, aws>>

printPlannedChanges ==
    /\ run.pc = "printPlannedChanges"
    /\ run' = AfterPrintPlannedChanges(run)
    /\ UNCHANGED <<file, flags, twin, aws>>

NewBootstrapper ==
    /\ run.pc = "NewBootstrapper"
    /\ \E ok \in BOOLEAN : run' = AfterNewBootstrapper(run, ok)
    /\ UNCHANGED <<file, flags, twin, aws>>

\* ProvisionResources takes the result of the reconciler that returned
ProvisionResourcesStep ==
    /\ run.pc = "ProvisionResources"
    /\ run' = AfterReconciler(run)
    /\ UNCHANGED <<file, flags, twin, aws>>

\* the process is at a provider call and issues it
Issue ==
    /\ run.pc \in ProviderCalls
    /\ run.pending = NoCall
    /\ run' = Issued(run)
    /\ UNCHANGED <<file, flags, twin, aws>>

\* the provider answers the call op, and the process continues
Returns(op) ==
    /\ run.pending.op = op
    /\ \E o \in Outcomes(aws, run.pending) :
          /\ run' = Continue(run, o)
          /\ aws' = Effect(aws, run.pending, o)
    /\ UNCHANGED <<file, flags, twin>>

GetCallerIdentity == Returns("GetCallerIdentity")
HeadBucket == Returns("HeadBucket")
CreateBucket == Returns("CreateBucket")
PutBucketVersioning == Returns("PutBucketVersioning")
PutBucketEncryption == Returns("PutBucketEncryption")
PutBucketCors == Returns("PutBucketCors")
PutBucketPolicy == Returns("PutBucketPolicy")
DescribeRepositories == Returns("DescribeRepositories")
CreateRepository == Returns("CreateRepository")
PutLifecyclePolicy == Returns("PutLifecyclePolicy")
GetUser == Returns("GetUser")
CreateUser == Returns("CreateUser")
ListPolicies == Returns("ListPolicies")
CreatePolicyVersion == Returns("CreatePolicyVersion")
CreatePolicy == Returns("CreatePolicy")
AttachUserPolicy == Returns("AttachUserPolicy")
DescribeDBInstances == Returns("DescribeDBInstances")
CreateDBInstance == Returns("CreateDBInstance")
ModifyDBInstance == Returns("ModifyDBInstance")

(***************************************************************************)
(* The initial states: a document, the toggles, and a provider at which    *)
(* any of the configured resources may exist already.                      *)
(***************************************************************************)
NothingExists ==
    [buckets |-> {}, repos |-> {}, users |-> {}, policies |-> <<>>, dbs |-> {},
     settings |-> NoSettings]

\* the derived full names of the policies of a configuration
ConfiguredPolicies(c) ==
    UNION {{FullPolicyName(c.IAMUsers[k].Name, c.IAMUsers[k].Policies[m]) :
                m \in DOMAIN c.IAMUsers[k].Policies} : k \in DOMAIN c.IAMUsers}

\* the one CORS rule the configuration asks for: the block, its methods upper-cased
CORSRule(block) == [block EXCEPT !.AllowedMethods = convertToMethodsEnum(@)]

\* the desired state of the resources of the configuration that exist in e: the
\* value the configuration gives to each attribute it sets
DesiredSettings(c, e) ==
    LET buckets == {c.S3Buckets[k] :
                       k \in {m \in DOMAIN c.S3Buckets : c.S3Buckets[m].Name \in e.buckets}}
        repos == {c.ECRRepositories[k] :
                     k \in {m \in DOMAIN c.ECRRepositories :
                               c.ECRRepositories[m].Name \in e.repos}}
        users == {c.IAMUsers[k] :
                     k \in {m \in DOMAIN c.IAMUsers : c.IAMUsers[m].Name \in e.users}}
        policies == UNION {{<<u.Name, u.Policies[m]>> : m \in DOMAIN u.Policies} :
                              u \in users}
        existing == {p \in policies : FullPolicyName(p[1], p[2]) \in Range(e.policies)}
    IN  [versioning |-> {<<b.Name, "Enabled">> : b \in {x \in buckets :
                                                         x.Versioning = "enabled"}},
         encryption |-> {<<b.Name, b.Encryption>> : b \in {x \in buckets :
                                                             x.Encryption # ""}},
         cors |-> {<<b.Name, <<CORSRule(b.CORS)>> >> : b \in {x \in buckets :
                                                                x.CORS # NoCORS}},
         policy |-> {<<b.Name, b.Policy>> : b \in {x \in buckets : x.Policy # ""}},
         lifecycle |-> {<<r.Name, r.LifecyclePolicy>> :
                           r \in {x \in repos : x.LifecyclePolicy # ""}},
         document |-> {<<PolicyArn(FullPolicyName(p[1], p[2])), p[2].PolicyDocument>> :
                          p \in existing},
         attached |-> {<<p[1], PolicyArn(FullPolicyName(p[1], p[2]))>> : p \in existing}]

\* what exists, with no attribute set yet
ExistenceStates(c) ==
    [buckets : SUBSET {c.S3Buckets[k].Name : k \in DOMAIN c.S3Buckets},
     repos : SUBSET {c.ECRRepositories[k].Name : k \in DOMAIN c.ECRRepositories},
     users : SUBSET {c.IAMUsers[k].Name : k \in DOMAIN c.IAMUsers},
     policies : IF ConfiguredPolicies(c) = {} THEN {<<>>}
                ELSE DistinctSeqs(ConfiguredPolicies(c) \cup {OtherPolicy},
                                  PageSize + 1),
     dbs : SUBSET {c.RDSInstances[k].Identifier : k \in DOMAIN c.RDSInstances},
     settings : {NoSettings}]

\* the resources that exist are as the provider made them, or in the desired state
ProviderStates(d) ==
    IF d.kind # "yaml" THEN {NothingExists}
    ELSE LET c == Unmarshal(d) IN
         UNION {{e, [e EXCEPT !.settings = DesiredSettings(c, e)]} :
                   e \in ExistenceStates(c)}

Init ==
    /\ file \in Documents
    /\ flags \in [dryRun : BOOLEAN, checkCreds : BOOLEAN]
    /\ aws \in IF flags.dryRun \/ flags.checkCreds
               THEN {NothingExists} ELSE ProviderStates(file)
    /\ run = Start
    /\ twin = Start

Next ==
    \/ LoadConfig
    \/ CheckAWSCredentials
    \/ GetCallerIdentity
    \/ printPlannedChanges
    \/ NewBootstrapper
    \/ ProvisionResourcesStep
    \/ Issue
    \/ HeadBucket
    \/ CreateBucket
    \/ PutBucketVersioning
    \/ PutBucketEncryption
    \/ PutBucketCors
    \/ PutBucketPolicy
    \/ DescribeRepositories
    \/ CreateRepository
    \/ PutLifecyclePolicy
    \/ GetUser
    \/ CreateUser
    \/ ListPolicies
    \/ CreatePolicyVersion
    \/ CreatePolicy
    \/ AttachUserPolicy
    \/ DescribeDBInstances
    \/ CreateDBInstance
    \/ ModifyDBInstance

Spec == Init /\ [][Next]_vars

(***************************************************************************)
(* Two processes with the same inputs, in lockstep.  The provider gives    *)
(* both the same answer to every call, except to a call whose failure the  *)
(* code only warns about: there each process gets an answer of its own.    *)
(***************************************************************************)
WarnAndContinueCalls ==
    {"PutBucketVersioning", "PutBucketEncryption", "PutBucketCors", "PutBucketPolicy",
     "PutLifecyclePolicy", "ModifyDBInstance"}

TwinLoadConfig ==
    /\ run.pc = "LoadConfig" /\ twin.pc = "LoadConfig"
    /\ run' = AfterLoadConfig(run, file)
    /\ twin' = AfterLoadConfig(twin, file)
    /\ UNCHANGED <<file, flags, aws>>

TwinCheckAWSCredentials ==
    /\ run.pc = "CheckAWSCredentials" /\ twin.pc = "CheckAWSCredentials"
    /\ \E ok \in BOOLEAN :
          /\ run' = AfterLoadDefaultConfig(run, ok)
          /\ twin' = AfterLoadDefaultConfig(twin, ok)
    /\ UNCHANGED <<file, flags, aws>>

TwinPrintPlannedChanges ==
    /\ run.pc = "printPlannedChanges" /\ twin.pc = "printPlannedChanges"
    /\ run' = AfterPrintPlannedChanges(run)
    /\ twin' = AfterPrintPlannedChanges(twin)
    /\ UNCHANGED <<file, flags, aws>>

TwinNewBootstrapper ==
    /\ run.pc = "NewBootstrapper" /\ twin.pc = "NewBootstrapper"
    /\ \E ok \in BOOLEAN :
          /\ run' = AfterNewBootstrapper(run, ok)
          /\ twin' = AfterNewBootstrapper(twin, ok)
    /\ UNCHANGED <<file, flags, aws>>

TwinProvisionResourcesStep ==
    /\ run.pc = "ProvisionResources" /\ twin.pc = "ProvisionResources"
    /\ run' = AfterReconciler(run)
    /\ twin' = AfterReconciler(twin)
    /\ UNCHANGED <<file, flags, aws>>

TwinIssue ==
    /\ run.pc \in ProviderCalls /\ twin.pc \in ProviderCalls
    /\ run.pending = NoCall /\ twin.pending = NoCall
    /\ run' = Issued(run)
    /\ twin' = Issued(twin)
    /\ UNCHANGED <<file, flags, aws>>

TwinReturns ==
    /\ run.pending # NoCall /\ twin.pending # NoCall
    /\ \E o1 \in Outcomes(aws, run.pending), o2 \in Outcomes(aws, twin.pending) :
          /\ run.pending.op \notin WarnAndContinueCalls => o1 = o2
          /\ run' = Continue(run, o1)
          /\ twin' = Continue(twin, o2)
          /\ aws' = Effect(aws, run.pending, o1)
    /\ UNCHANGED <<file, flags>>


\* the run that goes on: main is one sequential process that takes its next
\* step whenever it has one, and every provider call returns
SpecFair == Init /\ [][Next]_vars /\ WF_vars(Next)

TwinNext ==
    \/ TwinLoadConfig
    \/ TwinCheckAWSCredentials
    \/ TwinPrintPlannedChanges
    \/ TwinNewBootstrapper
    \/ TwinProvisionResourcesStep
    \/ TwinIssue
    \/ TwinReturns

SpecTwin == Init /\ [][TwinNext]_vars

(***************************************************************************)
(* Two uncoordinated runs of the program against the same account, each    *)
(* at its own pace: the processes share nothing but the provider, and the  *)
(* code takes no lock and keeps no state between its existence query and   *)
(* its create call.  The document names one bucket.                        *)
(***************************************************************************)
OneBucketDocuments ==
    {d \in Documents :
        /\ d.kind = "yaml"
        /\ Len(Unmarshal(d).S3Buckets) = 1
        /\ Resources(Unmarshal(d)) = 1}

RaceInit ==
    /\ Init
    /\ file \in OneBucketDocuments

OtherLoadConfig ==
    /\ twin.pc = "LoadConfig"
    /\ twin' = AfterLoadConfig(twin, file)
    /\ UNCHANGED <<file, flags, run, aws>>

OtherCheckAWSCredentials ==
    /\ twin.pc = "CheckAWSCredentials"
    /\ \E ok \in BOOLEAN : twin' = AfterLoadDefaultConfig(twin, ok)
    /\ UNCHANGED <<file, flags, run, aws>>

OtherPrintPlannedChanges ==
    /\ twin.pc = "printPlannedChanges"
    /\ twin' = AfterPrintPlannedChanges(twin)
    /\ UNCHANGED <<file, flags, run, aws>>

OtherNewBootstrapper ==
    /\ twin.pc = "NewBootstrapper"
    /\ \E ok \in BOOLEAN : twin' = AfterNewBootstrapper(twin, ok)
    /\ UNCHANGED <<file, flags, run, aws>>

OtherProvisionResourcesStep ==
    /\ twin.pc = "ProvisionResources"
    /\ twin' = AfterReconciler(twin)
    /\ UNCHANGED <<file, flags, run, aws>>

OtherIssue ==
    /\ twin.pc \in ProviderCalls
    /\ twin.pending = NoCall
    /\ twin' = Issued(twin)
    /\ UNCHANGED <<file, flags, run, aws>>

\* the provider answers the call of the other process
OtherReturns ==
    /\ twin.pending # NoCall
    /\ \E o \in Outcomes(aws, twin.pending) :
          /\ twin' = Continue(twin, o)
          /\ aws' = Effect(aws, twin.pending, o)
    /\ UNCHANGED <<file, flags, run>>

RaceNext ==
    \/ LoadConfig
    \/ CheckAWSCredentials
    \/ GetCallerIdentity
    \/ printPlannedChanges
    \/ NewBootstrapper
    \/ ProvisionResourcesStep
    \/ Issue
    \/ HeadBucket
    \/ CreateBucket
    \/ PutBucketVersioning
    \/ PutBucketEncryption
    \/ PutBucketCors
    \/ PutBucketPolicy
    \/ OtherLoadConfig
    \/ OtherCheckAWSCredentials
    \/ OtherPrintPlannedChanges
    \/ OtherNewBootstrapper
    \/ OtherProvisionResourcesStep
    \/ OtherIssue
    \/ OtherReturns

SpecRace == RaceInit /\ [][RaceNext]_vars

(***************************************************************************)
(* The command is run again: when a run has ended without a fatal error, a *)
(* second process starts with the same document and the same toggles,      *)
(* against the provider as the first run left it.  Nothing is kept between *)
(* the runs but the provider's state.                                      *)
(***************************************************************************)
FirstRunDone == run.pc = "exit" /\ run.exit = 0

SecondRun ==
    /\ FirstRunDone
    /\ \/ OtherLoadConfig
       \/ OtherCheckAWSCredentials
       \/ OtherPrintPlannedChanges
       \/ OtherNewBootstrapper
       \/ OtherProvisionResourcesStep
       \/ OtherIssue
       \/ OtherReturns

RepeatNext ==
    \/ Next
    \/ SecondRun

SpecRepeat == Init /\ [][RepeatNext]_vars

(***************************************************************************)
(* The history of the run, as the properties read it.                      *)
(***************************************************************************)
\* the calls issued so far with that name for the resource at that list position
IssuedFor(op, item) ==
    {m \in DOMAIN run.calls : run.calls[m].req.op = op /\ run.calls[m].item = item}

\* the process is about to issue that call for the resource at that list position
AboutToIssue(op, item) == run.pc = op /\ run.pending = NoCall /\ run.i = item

\* the call number k has been answered
Answered(k) == k \in DOMAIN run.outs

\* exactly one such call is issued: it has been, or it is the next thing the
\* process does
ExactlyOne(op, item) ==
    \/ Cardinality(IssuedFor(op, item)) = 1 /\ ~AboutToIssue(op, item)
    \/ IssuedFor(op, item) = {} /\ AboutToIssue(op, item)

MutatingCalls ==
    {"CreateBucket", "PutBucketVersioning", "PutBucketEncryption", "PutBucketCors",
     "PutBucketPolicy", "CreateRepository", "PutLifecyclePolicy", "CreateUser",
     "CreatePolicyVersion", "CreatePolicy", "AttachUserPolicy", "CreateDBInstance",
     "ModifyDBInstance"}

\* the resource kinds in the order of ProvisionResources; 0 is the identity check
KindOf(op) ==
    CASE op = "GetCallerIdentity" -> 0
      [] op \in {"HeadBucket", "CreateBucket", "PutBucketVersioning",
                 "PutBucketEncryption", "PutBucketCors", "PutBucketPolicy"} -> 1
      [] op \in {"DescribeRepositories", "CreateRepository", "PutLifecyclePolicy"} -> 2
      [] op \in {"GetUser", "CreateUser", "ListPolicies", "CreatePolicyVersion",
                 "CreatePolicy", "AttachUserPolicy"} -> 3
      [] op \in {"DescribeDBInstances", "CreateDBInstance", "ModifyDBInstance"} -> 4

(***************************************************************************)
(* C1.  For every bucket: when HeadBucket succeeds, no CreateBucket call   *)
(* is issued for the bucket; when it reports the bucket absent, exactly    *)
(* one CreateBucket call is issued, and the call has a location constraint *)
(* exactly when the region is not us-east-1, and then it is the region.    *)
(***************************************************************************)
C1_CreateBucketIffAbsent ==
    \A k \in DOMAIN run.calls :
        (run.calls[k].req.op = "HeadBucket" /\ Answered(k)) =>
            LET item == run.calls[k].item IN
            /\ run.outs[k].status = "ok" => IssuedFor("CreateBucket", item) = {}
            /\ (Failed(run.outs[k]) /\ run.outs[k].code = "NotFound") =>
                  /\ ExactlyOne("CreateBucket", item)
                  /\ \A m \in IssuedFor("CreateBucket", item) :
                        LET req == run.calls[m].req IN
                        /\ "LocationConstraint" \in DOMAIN req
                              <=> run.config.Region # "us-east-1"
                        /\ "LocationConstraint" \in DOMAIN req
                              => req.LocationConstraint = run.config.Region

\* a bucket was absent outside us-east-1 and its creation was issued with the region
C1_Witness ==
    \E k \in DOMAIN run.calls :
        /\ run.calls[k].req.op = "CreateBucket"
        /\ "LocationConstraint" \in DOMAIN run.calls[k].req
        /\ run.outs[k - 1].code = "NotFound"

(***************************************************************************)
(* C2.  Whether a call that the code only warns about (bucket versioning,  *)
(* encryption, CORS, policy; lifecycle policy; storage modification)       *)
(* succeeds or fails changes nothing afterwards: two runs that get the     *)
(* same answers except to those calls issue the same calls and end with    *)
(* the same result.                                                        *)
(***************************************************************************)
C2_WarningChangesNothing ==
    /\ run.calls = twin.calls
    /\ run.pending = twin.pending
    /\ run.pc = twin.pc
    /\ run.ret = twin.ret
    /\ run.err = twin.err
    /\ run.exit = twin.exit

\* the two runs got different answers to a call, issued further calls and ended
C2_Witness ==
    /\ run.pc = "exit"
    /\ run.exit = 0
    /\ \E k \in DOMAIN run.outs :
          /\ Failed(run.outs[k]) /\ ~Failed(twin.outs[k])
          /\ Len(run.calls) > k

(***************************************************************************)
(* C3.  Policy upsert: whenever a local-scope policy of the derived full   *)
(* name exists at the provider, wherever it is in the provider's list,     *)
(* createIAMPolicy issues CreatePolicyVersion with set-as-default for it,  *)
(* returns its identifier, and never issues CreatePolicy for the name.     *)
(* (Stated for the policies that survive a successful ListPolicies call.)  *)
(***************************************************************************)
\* the call issued last, and whether it has been answered
LastCall == run.calls[Len(run.calls)]
LastAnswered(op) ==
    /\ run.calls # <<>>
    /\ LastCall.req.op = op
    /\ Len(run.outs) = Len(run.calls)
    /\ run.outs[Len(run.outs)].status = "ok"

\* the derived full name of the policy the call number k is about
FullNameAt(k) ==
    FullPolicyName(run.config.IAMUsers[run.calls[k].item].Name,
                   run.config.IAMUsers[run.calls[k].item].Policies[run.calls[k].sub])

C3_UpsertNeverCreates ==
    /\ (LastAnswered("ListPolicies")
          /\ FullNameAt(Len(run.calls)) \in Range(aws.policies)) =>
            /\ run.pc = "CreatePolicyVersion"
            /\ run.policyArn = PolicyArn(FullNameAt(Len(run.calls)))
    /\ run.pending.op = "CreatePolicyVersion" =>
            /\ run.pending.SetAsDefault
            /\ run.pending.PolicyArn = PolicyArn(FullNameAt(Len(run.calls)))
    /\ LastAnswered("CreatePolicyVersion") =>
            /\ run.pc = "AttachUserPolicy"
            /\ run.policyArn = PolicyArn(FullNameAt(Len(run.calls)))
    /\ run.pending.op = "CreatePolicy" =>
            run.pending.PolicyName \notin Range(aws.policies)

(***************************************************************************)
(* C4.  For every instance that a successful describe call reports:        *)
(* ModifyDBInstance is issued exactly when the reported storage differs    *)
(* from the spec's (larger or smaller) and the status is "available";      *)
(* when the storage differs and the status is anything else, no modify     *)
(* call is issued and the run goes on to the next instance without error.  *)
(***************************************************************************)
C4_ModifyIffDiffersAndAvailable ==
    \A k \in DOMAIN run.calls :
        (/\ run.calls[k].req.op = "DescribeDBInstances"
         /\ Answered(k)
         /\ run.outs[k].status = "ok"
         /\ run.outs[k].DBInstances # <<>>
         /\ "AllocatedStorage" \in DOMAIN run.outs[k].DBInstances[1]) =>
            LET item == run.calls[k].item
                existing == run.outs[k].DBInstances[1]
                differs ==
                    existing.AllocatedStorage
                        # run.config.RDSInstances[item].AllocatedStorage
                available ==
                    /\ "DBInstanceStatus" \in DOMAIN existing
                    /\ existing.DBInstanceStatus = "available"
            IN  /\ (differs /\ available) => ExactlyOne("ModifyDBInstance", item)
                /\ ~(differs /\ available) =>
                      /\ IssuedFor("ModifyDBInstance", item) = {}
                      /\ ~AboutToIssue("ModifyDBInstance", item)
                /\ (differs /\ ~available /\ k = Len(run.calls)) =>
                      /\ run.err = NoError /\ run.ret = NoError
                      /\ run.pc = "exit" => run.exit = 0
                      /\ \/ AboutToIssue("DescribeDBInstances", item + 1)
                         \/ /\ item = Len(run.config.RDSInstances)
                            /\ run.pc \in {"ProvisionResources", "exit"}

\* the instance has more storage than the spec asks for, and the modify call is issued
C4_Witness ==
    \E k \in DOMAIN run.calls :
        /\ run.calls[k].req.op = "ModifyDBInstance"
        /\ "AllocatedStorage" \in DOMAIN run.outs[k - 1].DBInstances[1]
        /\ run.outs[k - 1].DBInstances[1].AllocatedStorage
              > run.config.RDSInstances[run.calls[k].item].AllocatedStorage

(***************************************************************************)
(* C5.  For every instance whose describe call reports "not found",        *)
(* exactly one CreateDBInstance call is issued, with the required fields   *)
(* (identifier, engine, instance class, allocated storage, database name). *)
(* As claimed: every optional field, the two flags included, is in the     *)
(* request only when it is non-empty, non-zero or true in the spec.        *)
(* As the code has it: that holds of engine version, storage type, master  *)
(* username, master password and backup retention; public accessibility    *)
(* and multi-AZ are in every request, with the value of the spec.          *)
(***************************************************************************)
RequiredCreateFields ==
    {"DBInstanceIdentifier", "Engine", "DBInstanceClass", "AllocatedStorage", "DBName"}

\* one create call for every instance reported "not found", with the required fields
C5_OneCreatePerMissingInstance ==
    /\ \A k \in DOMAIN run.calls :
          (/\ run.calls[k].req.op = "DescribeDBInstances"
           /\ Answered(k)
           /\ Failed(run.outs[k])
           /\ run.outs[k].code = "DBInstanceNotFound") =>
              ExactlyOne("CreateDBInstance", run.calls[k].item)
    /\ \A k \in DOMAIN run.calls :
          run.calls[k].req.op = "CreateDBInstance" =>
              LET req == run.calls[k].req
                  inst == run.config.RDSInstances[run.calls[k].item]
              IN  /\ RequiredCreateFields \subseteq DOMAIN req
                  /\ req.DBInstanceIdentifier = inst.Identifier
                  /\ req.Engine = inst.Engine
                  /\ req.DBInstanceClass = inst.InstanceClass
                  /\ req.AllocatedStorage = inst.AllocatedStorage

\* the optional fields with an empty value: in the request exactly when set
OptionalFieldsOnlyWhenSet(req, inst) ==
    /\ "EngineVersion" \in DOMAIN req <=> inst.EngineVersion # ""
    /\ "StorageType" \in DOMAIN req <=> inst.StorageType # ""
    /\ "MasterUsername" \in DOMAIN req <=> inst.MasterUsername # ""
    /\ "MasterUserPassword" \in DOMAIN req <=> inst.MasterPassword # ""
    /\ "BackupRetentionPeriod" \in DOMAIN req <=> inst.BackupRetentionPeriod # 0
    /\ "EngineVersion" \in DOMAIN req => req.EngineVersion = inst.EngineVersion
    /\ "StorageType" \in DOMAIN req => req.StorageType = inst.StorageType
    /\ "MasterUsername" \in DOMAIN req => req.MasterUsername = inst.MasterUsername
    /\ "MasterUserPassword" \in DOMAIN req => req.MasterUserPassword = inst.MasterPassword
    /\ "BackupRetentionPeriod" \in DOMAIN req
          => req.BackupRetentionPeriod = inst.BackupRetentionPeriod

C6_DryRunNoProviderCall == flags.dryRun => run.calls = <<>>

\* the claim as amended
C6_DryRunOnlyIdentityCheck ==
    flags.dryRun =>
        /\ Len(run.calls) <= 1
        /\ \A k \in DOMAIN run.calls :
              /\ run.calls[k].req.op = "GetCallerIdentity"
              /\ run.config # NoConfig
        /\ run.pc \notin ProviderCalls \ {"GetCallerIdentity"}
        /\ run.pc \notin {"NewBootstrapper", "ProvisionResources"}

\* a dry run that made the identity check and is about to print the plan
C6_Witness ==
    /\ flags.dryRun
    /\ run.pc = "printPlannedChanges"
    /\ Len(run.calls) = 1

(***************************************************************************)
(* C7.  No mutating provider call (create, put, attach, modify) is issued  *)
(* unless, earlier in the run, the configuration loaded and the credential *)
(* check succeeded, and neither toggle is set; a failure to load the       *)
(* configuration or to check the credentials ends the process with a       *)
(* non-zero status before any reconciler runs.                             *)
(***************************************************************************)
C7_NoMutationBeforeChecks ==
    /\ (\E k \in DOMAIN run.calls : run.calls[k].req.op \in MutatingCalls) =>
          /\ run.config # NoConfig
          /\ run.arn # ""
          /\ run.calls[1].req.op = "GetCallerIdentity"
          /\ run.outs[1].status = "ok"
          /\ ~flags.dryRun
          /\ ~flags.checkCreds
    /\ (file.kind # "yaml" /\ run.pc # "LoadConfig") =>
          run.pc = "exit" /\ run.exit = 1 /\ run.calls = <<>>
    /\ (run.outs # <<>> /\ Failed(run.outs[1])) =>
          run.pc = "exit" /\ run.exit = 1 /\ Len(run.calls) = 1
    /\ (run.arn = "" /\ run.pending = NoCall
           /\ run.pc \notin {"LoadConfig", "CheckAWSCredentials", "GetCallerIdentity"}) =>
          run.pc = "exit" /\ run.exit = 1 /\ Len(run.calls) <= 1

\* a mutating call issued in a run whose checks succeeded
C7_Witness ==
    /\ run.pending.op \in MutatingCalls
    /\ run.arn # ""
    /\ run.outs[1].status = "ok"

(***************************************************************************)
(* C8.  The kinds are processed in the order buckets, repositories, access *)
(* principals, database instances: every call for one kind is issued       *)
(* before the first call for a later kind; and no two provider calls are   *)
(* in flight at the same time.                                             *)
(***************************************************************************)
C8_KindsInOrderOneCallAtATime ==
    /\ \A k, m \in DOMAIN run.calls :
          k < m => KindOf(run.calls[k].req.op) <= KindOf(run.calls[m].req.op)
    /\ Len(run.calls) - Len(run.outs) \in {0, 1}
    /\ run.pending # NoCall <=> Len(run.calls) = Len(run.outs) + 1
    /\ run.pending # NoCall => run.pending = LastCall.req

\* calls for a repository and then for a database instance, the last one in flight
C8_Witness ==
    /\ run.pending.op = "DescribeDBInstances"
    /\ \E k \in DOMAIN run.calls : KindOf(run.calls[k].req.op) \in {1, 2, 3}

(***************************************************************************)
(* C9.  A failed CreateBucket call ends the run: no provider call is       *)
(* issued after it, and ProvisionResources returns an error that names the *)
(* bucket and wraps the provider's error.                                  *)
(***************************************************************************)
C9_BucketCreationFailureIsFatal ==
    \A k \in DOMAIN run.calls :
        (run.calls[k].req.op = "CreateBucket" /\ Answered(k) /\ Failed(run.outs[k])) =>
            /\ Len(run.calls) = k
            /\ run.pc \in {"ProvisionResources", "exit"}
            /\ run.pc = "ProvisionResources" =>
                  /\ run.ret.msgs = <<"failed to create bucket">>
                  /\ run.ret.name = run.calls[k].req.Bucket
                  /\ run.ret.cause = run.outs[k].code
            /\ run.pc = "exit" =>
                  /\ run.exit = 1
                  /\ run.err.msgs = <<"Failed to provision resources",
                                      "failed to create S3 buckets",
                                      "failed to create bucket">>
                  /\ run.err.name = run.calls[k].req.Bucket
                  /\ run.err.cause = run.outs[k].code

\* the creation of the first of two resources failed and the process has exited
C9_Witness ==
    /\ run.pc = "exit"
    /\ run.calls # <<>>
    /\ LastCall.req.op = "CreateBucket"
    /\ LastCall.item = 1
    /\ Resources(run.config) > 1

(***************************************************************************)
(* C10. Resources are only created if they do not exist: a create call for *)
(* a bucket, repository, access principal or database instance is issued   *)
(* only when the resource does not exist at the provider at that time,     *)
(* also when the existence check failed for another reason than absence.   *)
(***************************************************************************)
C10_CreateOnlyWhenAbsent ==
    /\ run.pending.op = "CreateBucket" => run.pending.Bucket \notin aws.buckets
    /\ run.pending.op = "CreateRepository" => run.pending.RepositoryName \notin aws.repos
    /\ run.pending.op = "CreateUser" => run.pending.UserName \notin aws.users
    /\ run.pending.op = "CreateDBInstance" =>
          run.pending.DBInstanceIdentifier \notin aws.dbs

(***************************************************************************)
(* C11. A failed CreateDBInstance call ends the run: ManageRDSInstances    *)
(* returns an error for it, and no describe, create or modify call is      *)
(* issued for an instance later in the list.                               *)
(***************************************************************************)
C11_InstanceCreationFailureIsFatal ==
    \A k \in DOMAIN run.calls :
        (/\ run.calls[k].req.op = "CreateDBInstance"
         /\ Answered(k)
         /\ Failed(run.outs[k])) =>
            /\ Len(run.calls) = k
            /\ run.pc \in {"ProvisionResources", "exit"}
            /\ run.pc = "ProvisionResources" =>
                  /\ run.returned = "ManageRDSInstances"
                  /\ run.ret # NoError
                  /\ run.ret.msgs = <<"failed to create RDS instance">>
                  /\ run.ret.name = run.calls[k].req.DBInstanceIdentifier
                  /\ run.ret.cause = run.outs[k].code
            /\ run.pc = "exit" =>
                  /\ run.exit = 1
                  /\ run.err.msgs = <<"Failed to provision resources",
                                      "failed to manage RDS instances",
                                      "failed to create RDS instance">>
                  /\ run.err.name = run.calls[k].req.DBInstanceIdentifier

\* the creation of the first of two instances failed and the process has exited
C11_Witness ==
    /\ run.pc = "exit"
    /\ run.calls # <<>>
    /\ LastCall.req.op = "CreateDBInstance"
    /\ LastCall.item = 1
    /\ Len(run.config.RDSInstances) > 1

(***************************************************************************)
(* C12. A describe error that is not the "not found" signal: no create or  *)
(* modify call is issued for that instance.                                *)
(* As claimed: the instances later in the list are still attempted.        *)
(* As the code has it: ManageRDSInstances returns the error at once, no    *)
(* call is issued for any later instance, and the run ends with status 1.  *)
(***************************************************************************)
\* the describe call number k failed with another error than "not found"
DescribeFailedOtherwise(k) ==
    /\ run.calls[k].req.op = "DescribeDBInstances"
    /\ Answered(k)
    /\ Failed(run.outs[k])
    /\ ~Contains(ErrorText(run.outs[k]), "DBInstanceNotFound")

\* the claim as made: at the end of the run the later instances were described
C12_LaterInstancesStillAttempted ==
    \A k \in DOMAIN run.calls :
        DescribeFailedOtherwise(k) =>
            /\ IssuedFor("CreateDBInstance", run.calls[k].item) = {}
            /\ IssuedFor("ModifyDBInstance", run.calls[k].item) = {}
            /\ run.pc = "exit" =>
                  \A m \in (run.calls[k].item + 1)..Len(run.config.RDSInstances) :
                      IssuedFor("DescribeDBInstances", m) # {}

\* the claim as amended
C12_DescribeErrorIsFatal ==
    \A k \in DOMAIN run.calls :
        DescribeFailedOtherwise(k) =>
            /\ IssuedFor("CreateDBInstance", run.calls[k].item) = {}
            /\ IssuedFor("ModifyDBInstance", run.calls[k].item) = {}
            /\ Len(run.calls) = k
            /\ run.pc \in {"ProvisionResources", "exit"}
            /\ run.pc = "ProvisionResources" =>
                  /\ run.returned = "ManageRDSInstances"
                  /\ run.ret # NoError
                  /\ run.ret.msgs = <<"error checking RDS instance">>
                  /\ run.ret.name = run.calls[k].req.DBInstanceIdentifier
                  /\ run.ret.cause = run.outs[k].code
            /\ run.pc = "exit" =>
                  /\ run.exit = 1
                  /\ run.err.msgs = <<"Failed to provision resources",
                                      "failed to manage RDS instances",
                                      "error checking RDS instance">>

\* the describe call for the first of two instances failed and the process has exited
C12_Witness ==
    /\ run.pc = "exit"
    /\ run.calls # <<>>
    /\ DescribeFailedOtherwise(Len(run.calls))
    /\ LastCall.item = 1
    /\ Len(run.config.RDSInstances) > 1

(***************************************************************************)
(* C13. For every policy of every principal: after the upsert returned an  *)
(* identifier, exactly one attach call is issued, with that identifier and *)
(* the principal's name.  An "already attached" failure of the attach is   *)
(* reported as success, any other failure as a warning; in both cases the  *)
(* loop goes on with the next policy and no error is returned.             *)
(***************************************************************************)
\* the attach calls issued for the policy the call number k is about
AttachCallsFor(k) ==
    {m \in DOMAIN run.calls :
        /\ run.calls[m].req.op = "AttachUserPolicy"
        /\ run.calls[m].item = run.calls[k].item
        /\ run.calls[m].sub = run.calls[k].sub}

\* the identifier the upsert returned with its call number k
UpsertIdentifier(k) ==
    IF run.calls[k].req.op = "CreatePolicy"
    THEN run.outs[k].Arn
    ELSE run.calls[k].req.PolicyArn

C13_AttachOnceAndTolerated ==
    /\ \A k \in DOMAIN run.calls :
          (/\ run.calls[k].req.op \in {"CreatePolicy", "CreatePolicyVersion"}
           /\ Answered(k)
           /\ ~Failed(run.outs[k])) =>
              IF k = Len(run.calls)
              THEN /\ run.pc = "AttachUserPolicy"
                   /\ run.policyArn = UpsertIdentifier(k)
                   /\ AttachCallsFor(k) = {}
              ELSE /\ AttachCallsFor(k) = {k + 1}
                   /\ run.calls[k + 1].req.PolicyArn = UpsertIdentifier(k)
                   /\ run.calls[k + 1].req.UserName
                         = run.config.IAMUsers[run.calls[k].item].Name
    /\ (run.calls # <<>> /\ LastCall.req.op = "AttachUserPolicy"
           /\ Answered(Len(run.calls))) =>
          LET o == run.outs[Len(run.outs)]
              user == run.config.IAMUsers[LastCall.item]
              line == run.log[Len(run.log)]
          IN  /\ run.ret = NoError
              /\ run.err = NoError
              /\ run.pc = "exit" => run.exit = 0
              /\ LastCall.sub < Len(user.Policies) =>
                    /\ run.pc = "ListPolicies"
                    /\ run.i = LastCall.item
                    /\ run.j = LastCall.sub + 1
              /\ (LastCall.sub = Len(user.Policies)
                     /\ LastCall.item < Len(run.config.IAMUsers)) =>
                    run.pc = "GetUser" /\ run.i = LastCall.item + 1
              /\ (Failed(o) /\ o.code = "EntityAlreadyExists") =>
                    line.mark = "ok" /\ line.text = "Policy already attached to user"
              /\ (Failed(o) /\ o.code # "EntityAlreadyExists") =>
                    line.mark = "warning" /\ line.text = "failed to attach policy to user"

\* an attach call failed for another reason than "already attached", and the next
\* policy of the principal was taken up
C13_Witness ==
    \E k \in DOMAIN run.outs :
        /\ run.calls[k].req.op = "AttachUserPolicy"
        /\ Failed(run.outs[k])
        /\ run.outs[k].code = "AccessDenied"
        /\ Len(run.calls) > k
        /\ run.calls[k + 1].req.op = "ListPolicies"
        /\ run.calls[k + 1].item = run.calls[k].item

(***************************************************************************)
(* C14. Which failures abort a run.                                        *)
(* As claimed: apart from a database describe error, ProvisionResources    *)
(* returns an error only when a call that creates a new resource failed;   *)
(* a failed step on an existing resource, listing the policies and adding  *)
(* a version to an existing policy included, warns and continues.          *)
(* As the code has it: a failure to list the policies or to add a version  *)
(* to an existing policy is returned as well; the failures that warn and   *)
(* continue are those of the bucket configuration steps, the lifecycle     *)
(* policy, the attach and the storage modification.                        *)
(***************************************************************************)
\* ProvisionResources has returned an error
ProvisionFailed ==
    \/ run.ret # NoError
    \/ /\ run.pc = "exit"
       /\ run.err # NoError
       /\ run.err.msgs[1] = "Failed to provision resources"

\* the calls that create a resource which did not exist
CreationCalls ==
    {"CreateBucket", "CreateRepository", "CreateUser", "CreatePolicy", "CreateDBInstance"}

\* the last call failed, and it is one of ops
LastFailedIn(ops) ==
    /\ run.calls # <<>>
    /\ Answered(Len(run.calls))
    /\ Failed(run.outs[Len(run.outs)])
    /\ LastCall.req.op \in ops

\* the claim as made
C14_OnlyCreationFailuresAbort ==
    /\ ProvisionFailed => LastFailedIn(CreationCalls \cup {"DescribeDBInstances"})
    /\ LastFailedIn((MutatingCalls \cup {"ListPolicies"}) \ CreationCalls) =>
          ~ProvisionFailed

\* the claim as amended
C14_FatalAndToleratedFailures ==
    /\ ProvisionFailed =>
          /\ LastFailedIn(CreationCalls
                            \cup {"ListPolicies", "CreatePolicyVersion",
                                  "DescribeDBInstances"})
          /\ LastCall.req.op = "DescribeDBInstances" =>
                run.outs[Len(run.outs)].code # "DBInstanceNotFound"
    /\ LastFailedIn(CreationCalls \cup {"ListPolicies", "CreatePolicyVersion"}) =>
          ProvisionFailed
    /\ LastFailedIn(WarnAndContinueCalls \cup {"AttachUserPolicy"}) =>
          /\ ~ProvisionFailed
          /\ run.pc = "exit" => run.exit = 0
          /\ run.log # <<>>
          /\ \/ run.log[Len(run.log)].mark = "warning"
             \/ run.outs[Len(run.outs)].code = "EntityAlreadyExists"

\* adding a version to an existing policy failed and ProvisionResources returned it
C14_Witness ==
    /\ LastFailedIn({"CreatePolicyVersion"})
    /\ run.pc = "exit"
    /\ run.exit = 1

(***************************************************************************)
(* C15. For every bucket, the calls issued after the existence check and   *)
(* the creation are exactly those whose field is set, in the order         *)
(* versioning, encryption, CORS, policy: versioning iff the flag is        *)
(* "enabled", encryption iff the algorithm is not empty, CORS iff a block  *)
(* is present, policy iff the policy string is not empty.  One bucket with *)
(* only versioning enabled, in us-east-1 and absent at the provider, gets  *)
(* exactly the existence check, the creation without location constraint   *)
(* and the versioning call, and the run ends without a fatal error.        *)
(***************************************************************************)
BucketCalls ==
    {"HeadBucket", "CreateBucket", "PutBucketVersioning", "PutBucketEncryption",
     "PutBucketCors", "PutBucketPolicy"}

\* the calls issued for the bucket at a list position, in their order
RECURSIVE CallsOfBucket(_, _)
CallsOfBucket(item, k) ==
    IF k = 0 THEN <<>>
    ELSE IF run.calls[k].req.op \in BucketCalls /\ run.calls[k].item = item
         THEN Append(CallsOfBucket(item, k - 1), run.calls[k].req.op)
         ELSE CallsOfBucket(item, k - 1)

\* the configuration calls a bucket spec asks for
StepsOf(bucket) ==
    (IF bucket.Versioning = "enabled" THEN <<"PutBucketVersioning">> ELSE <<>>)
    \o (IF bucket.Encryption # "" THEN <<"PutBucketEncryption">> ELSE <<>>)
    \o (IF bucket.CORS # NoCORS THEN <<"PutBucketCors">> ELSE <<>>)
    \o (IF bucket.Policy # "" THEN <<"PutBucketPolicy">> ELSE <<>>)

IsPrefix(p, q) == Len(p) <= Len(q) /\ p = SubSeq(q, 1, Len(p))

\* the loop is still at that bucket
BucketInProgress(item) == run.pc \in BucketCalls /\ run.i = item

C15_BucketStepsExactlyThoseSet ==
    /\ \A item \in 1..Len(run.calls) :
          IssuedFor("HeadBucket", item) # {} =>
              LET issued == CallsOfBucket(item, Len(run.calls))
                  created == IssuedFor("CreateBucket", item) # {}
                  first == IF created THEN <<"HeadBucket", "CreateBucket">>
                           ELSE <<"HeadBucket">>
                  expected == first \o StepsOf(run.config.S3Buckets[item])
                  aborted == \E k \in IssuedFor("CreateBucket", item) :
                                 Answered(k) /\ Failed(run.outs[k])
              IN  /\ IsPrefix(issued, expected)
                  /\ (~BucketInProgress(item) /\ ~aborted) => issued = expected
    /\ \A k \in DOMAIN run.calls :
          run.calls[k].req.op = "PutBucketVersioning" =>
              run.calls[k].req.Status = "Enabled"
    /\ (/\ run.pc = "exit"
        /\ Len(run.calls) > 2
        /\ Resources(run.config) = 1
        /\ Len(run.config.S3Buckets) = 1
        /\ run.config.Region = "us-east-1"
        /\ StepsOf(run.config.S3Buckets[1]) = <<"PutBucketVersioning">>
        /\ Failed(run.outs[2])
        /\ ~Failed(run.outs[3])) =>
          /\ [k \in DOMAIN run.calls |-> run.calls[k].req.op]
                = <<"GetCallerIdentity", "HeadBucket", "CreateBucket",
                    "PutBucketVersioning">>
          /\ "LocationConstraint" \notin DOMAIN run.calls[3].req
          /\ run.exit = 0
          /\ run.err = NoError

\* a bucket with the CORS block and the policy but versioning suspended and no
\* encryption was configured, and the run ended
C15_Witness ==
    /\ run.pc = "exit"
    /\ run.exit = 0
    /\ Len(run.config.S3Buckets) = 1
    /\ StepsOf(run.config.S3Buckets[1]) = <<"PutBucketCors", "PutBucketPolicy">>
    /\ CallsOfBucket(1, Len(run.calls))
          = <<"HeadBucket", "CreateBucket", "PutBucketCors", "PutBucketPolicy">>

(***************************************************************************)
(* C16. The report of a dry run, for a configuration with N buckets, M     *)
(* repositories and K principals, has exactly N + M + K top-level resource *)
(* lines, naming them in that order; a bucket's CORS sub-line, its policy  *)
(* sub-line and a repository's lifecycle-policy sub-line are printed if    *)
(* and only if the field is present (not empty) in the configuration.      *)
(***************************************************************************)
\* the lines of the plan among the lines printed
PlanPrinted == SelectSeq(run.log, LAMBDA l : "indent" \in DOMAIN l)

\* the positions of the top-level resource lines of a plan
TopLevel(plan) == {k \in DOMAIN plan : plan[k].indent = 2}

\* the position of the t-th top-level line
TopAt(plan, t) ==
    CHOOSE k \in TopLevel(plan) : Cardinality({m \in TopLevel(plan) : m <= k}) = t

\* a sub-line of that text follows the t-th top-level line, before any other
\* top-level line or heading
HasSubLine(plan, t, text) ==
    \E m \in DOMAIN plan :
        /\ m > TopAt(plan, t)
        /\ plan[m].text = text
        /\ \A q \in (TopAt(plan, t) + 1)..m : plan[q].indent = 4

DryRunReported ==
    /\ flags.dryRun
    /\ ~flags.checkCreds
    /\ run.pc = "exit"
    /\ run.exit = 0

C16_PlanLinesMatchConfiguration ==
    DryRunReported =>
        LET plan == PlanPrinted
            c == run.config
            N == Len(c.S3Buckets)
            M == Len(c.ECRRepositories)
            K == Len(c.IAMUsers)
        IN  /\ Cardinality(TopLevel(plan)) = N + M + K
            /\ \A n \in 1..N :
                  /\ plan[TopAt(plan, n)].names = <<c.S3Buckets[n].Name>>
                  /\ HasSubLine(plan, n, "- CORS configuration would be applied")
                        <=> c.S3Buckets[n].CORS # NoCORS
                  /\ HasSubLine(plan, n, "- Bucket policy would be applied")
                        <=> c.S3Buckets[n].Policy # ""
                  /\ ~HasSubLine(plan, n, "- Lifecycle policy would be applied")
            /\ \A m \in 1..M :
                  /\ plan[TopAt(plan, N + m)].names = <<c.ECRRepositories[m].Name>>
                  /\ HasSubLine(plan, N + m, "- Lifecycle policy would be applied")
                        <=> c.ECRRepositories[m].LifecyclePolicy # ""
                  /\ ~HasSubLine(plan, N + m, "- CORS configuration would be applied")
                  /\ ~HasSubLine(plan, N + m, "- Bucket policy would be applied")
            /\ \A k \in 1..K :
                  plan[TopAt(plan, N + M + k)].names = <<c.IAMUsers[k].Name>>

\* the report of a bucket with a CORS block and no policy
C16_Witness ==
    /\ DryRunReported
    /\ Len(run.config.S3Buckets) = 1
    /\ run.config.S3Buckets[1].CORS # NoCORS
    /\ run.config.S3Buckets[1].Policy = ""
    /\ Cardinality(TopLevel(PlanPrinted)) = 1

(***************************************************************************)
(* C17. LoadConfig on a well-formed document returns a configuration whose *)
(* region and lists of resources match the document (same length, same     *)
(* order, same names), with an empty list for every section the document   *)
(* leaves out; on an unreadable or malformed document it returns an error  *)
(* and no configuration.                                                   *)
(***************************************************************************)
\* the list has the length, the order and the names of the document's section
SameNames(list, section, field) ==
    /\ Len(list) = Len(section)
    /\ \A k \in DOMAIN section : list[k][field] = section[k][field]

\* the section of that key is loaded into the list, or is left out and the list empty
SectionLoaded(list, key, field) ==
    IF key \in DOMAIN file.keys
    THEN SameNames(list, file.keys[key], field) /\ list = file.keys[key]
    ELSE Len(list) = 0

C17_LoadConfigMatchesDocument ==
    run.pc # "LoadConfig" =>
        IF file.kind = "yaml"
        THEN /\ run.config # NoConfig
             /\ run.config.Region = file.keys.region
             /\ SectionLoaded(run.config.S3Buckets, "s3_buckets", "Name")
             /\ SectionLoaded(run.config.ECRRepositories, "ecr_repositories", "Name")
             /\ SectionLoaded(run.config.IAMUsers, "iam_users", "Name")
             /\ SectionLoaded(run.config.RDSInstances, "rds_instances", "Identifier")
             /\ ~(run.err # NoError /\ run.err.msgs[1] = "Failed to load configuration")
        ELSE /\ run.config = NoConfig
             /\ run.pc = "exit"
             /\ run.exit = 1
             /\ run.err.msgs[1] = "Failed to load configuration"
             /\ run.err.msgs[2] = IF file.kind = "unreadable"
                                  THEN "error reading config file"
                                  ELSE "error parsing YAML"

\* a document without buckets and with a repository and a user was loaded
C17_Witness ==
    /\ run.pc = "CheckAWSCredentials"
    /\ file.kind = "yaml"
    /\ "s3_buckets" \notin DOMAIN file.keys
    /\ Len(run.config.ECRRepositories) = 1
    /\ Len(run.config.IAMUsers) = 1

(***************************************************************************)
(* C18. Deletion is not supported: the run never issues a call that        *)
(* deletes a bucket, a repository, a principal, a policy or a database     *)
(* instance, and every resource that exists at the provider goes on        *)
(* existing: the provider's resources always include those of the start.   *)
(***************************************************************************)
DeleteCalls ==
    {"DeleteBucket", "DeleteRepository", "DeleteUser", "DeletePolicy",
     "DeletePolicyVersion", "DetachUserPolicy", "DeleteDBInstance"}

\* the process neither issued a delete call nor is about to
NoDeleteCall ==
    /\ run.pc \notin DeleteCalls
    /\ \A k \in DOMAIN run.calls :
          run.calls[k].req.op \in ProviderCalls \ DeleteCalls

\* what exists at the provider before a step exists after it
Kept ==
    /\ aws.buckets \subseteq aws'.buckets
    /\ aws.repos \subseteq aws'.repos
    /\ aws.users \subseteq aws'.users
    /\ Range(aws.policies) \subseteq Range(aws'.policies)
    /\ aws.dbs \subseteq aws'.dbs

C18_NothingIsDeleted == []NoDeleteCall /\ [][Kept]_vars

\* a bucket existed at the start, another one was created, and the run ended
C18_Witness ==
    /\ run.pc = "exit"
    /\ run.exit = 0
    /\ Cardinality(aws.buckets) = 2
    /\ Cardinality(IssuedFor("CreateBucket", 1) \cup IssuedFor("CreateBucket", 2)) = 1

(***************************************************************************)
(* C19.  Two uncoordinated runs on the same bucket name can both observe   *)
(* the bucket absent and both issue CreateBucket.  A process whose         *)
(* CreateBucket the provider rejects issues no call after it (no retry,    *)
(* no second existence query): the reconciler has returned the error, and  *)
(* the process exits with status 1.                                        *)
(***************************************************************************)
\* the call number k of the process p was a creation, and the provider rejected it
RejectedCreate(p, k) ==
    /\ k \in DOMAIN p.outs
    /\ p.calls[k].req.op = "CreateBucket"
    /\ Failed(p.outs[k])

\* the process p saw the bucket absent and then asked for its creation
SawAbsentThenCreated(p) ==
    \E k \in DOMAIN p.outs :
        /\ p.calls[k].req.op = "HeadBucket"
        /\ Failed(p.outs[k]) /\ p.outs[k].code = "NotFound"
        /\ k + 1 \in DOMAIN p.calls
        /\ p.calls[k + 1].req.op = "CreateBucket"
        /\ p.calls[k + 1].req.Bucket = p.calls[k].req.Bucket

C19_RejectedCreateEndsRun ==
    \A p \in {run, twin} : \A k \in DOMAIN p.outs :
        RejectedCreate(p, k) =>
            /\ k = Len(p.calls)
            /\ p.pending = NoCall
            /\ p.pc \in {"ProvisionResources", "exit"}
            /\ p.pc = "ProvisionResources" => p.ret # NoError
            /\ p.pc = "exit" => p.exit = 1 /\ p.err # NoError

\* both processes saw the bucket absent and both asked for its creation; the
\* provider created it for one and rejected the other, which exited with 1
C19_Witness ==
    /\ SawAbsentThenCreated(run) /\ SawAbsentThenCreated(twin)
    /\ run.calls[Len(run.calls)].req.Bucket = twin.calls[2].req.Bucket
    /\ \E k \in DOMAIN twin.outs :
          twin.calls[k].req.op = "CreateBucket" /\ twin.outs[k].status = "ok"
    /\ RejectedCreate(run, Len(run.calls))
    /\ run.outs[Len(run.calls)].code = "BucketAlreadyOwnedByYou"
    /\ run.pc = "exit" /\ run.exit = 1

(***************************************************************************)
(* C20.  For a bucket, a repository and a user, the create call is issued  *)
(* exactly when the existence query of the resource returned an error,     *)
(* whatever the error.  For a database instance the create call is issued  *)
(* only when the error of the describe call carries the "not found"        *)
(* signal; after any other describe error no create call is issued.        *)
(***************************************************************************)
\* the create call the code issues after an existence query
CreateAfter ==
    [HeadBucket |-> "CreateBucket",
     DescribeRepositories |-> "CreateRepository",
     GetUser |-> "CreateUser",
     DescribeDBInstances |-> "CreateDBInstance"]

\* the answer is an error with the "not found" signal of a database instance
NotFoundSignal(o) == Failed(o) /\ Contains(ErrorText(o), "DBInstanceNotFound")

Logged(line) == \E n \in DOMAIN run.log : run.log[n] = line

\* every resource of the configuration but the database instances exists, and
\* every attribute the configuration sets has the value of the configuration
InDesiredState(c, a) ==
    /\ \A k \in DOMAIN c.S3Buckets : c.S3Buckets[k].Name \in a.buckets
    /\ \A k \in DOMAIN c.ECRRepositories : c.ECRRepositories[k].Name \in a.repos
    /\ \A k \in DOMAIN c.IAMUsers : c.IAMUsers[k].Name \in a.users
    /\ ConfiguredPolicies(c) \subseteq Range(a.policies)
    /\ \A attr \in DOMAIN NoSettings :
          DesiredSettings(c, a)[attr] \subseteq a.settings[attr]

\* the describe call number k reported the instance with the storage of the spec
ReportedAsDesired(k) ==
    /\ run.calls[k].req.op = "DescribeDBInstances"
    /\ Answered(k)
    /\ ~Failed(run.outs[k])
    /\ Len(run.outs[k].DBInstances) > 0
    /\ LET existingInstance == run.outs[k].DBInstances[1] IN
       (IF "AllocatedStorage" \in DOMAIN existingInstance
        THEN existingInstance.AllocatedStorage ELSE 0)
           = Int32(run.config.RDSInstances[run.calls[k].item].AllocatedStorage)

\* the instance reported with the storage of the spec gets no call but the describe
InstanceLeftAlone ==
    \A k \in DOMAIN run.outs :
        ReportedAsDesired(k) =>
            /\ IssuedFor("CreateDBInstance", run.calls[k].item) = {}
            /\ IssuedFor("ModifyDBInstance", run.calls[k].item) = {}
            /\ ~AboutToIssue("CreateDBInstance", run.calls[k].item)
            /\ ~AboutToIssue("ModifyDBInstance", run.calls[k].item)
            /\ Logged(Success("RDS instance already exists with correct storage size",
                              <<run.calls[k].req.DBInstanceIdentifier>>))

\* the claim as it was made: in the desired state no mutating call is issued
C21_DesiredStateIsNoOp ==
    /\ (run.config # NoConfig /\ InDesiredState(run.config, aws)) =>
          run.pending.op \notin MutatingCalls \ {"CreateDBInstance", "ModifyDBInstance"}
    /\ InstanceLeftAlone

C21_ExistingIsReapplied ==
    /\ \A k \in DOMAIN run.outs :
          LET op == run.calls[k].req.op
              item == run.calls[k].item
              reported == ~Failed(run.outs[k])
          IN  /\ (op = "HeadBucket" /\ reported) =>
                    /\ IssuedFor("CreateBucket", item) = {}
                    /\ Logged(Success("Bucket already exists",
                                      <<run.calls[k].req.Bucket>>))
                    /\ ~BucketInProgress(item) =>
                          CallsOfBucket(item, Len(run.calls))
                              = <<"HeadBucket">> \o StepsOf(run.config.S3Buckets[item])
              /\ (op = "DescribeRepositories" /\ reported) =>
                    /\ IssuedFor("CreateRepository", item) = {}
                    /\ Logged(Success("ECR repository already exists",
                                      run.calls[k].req.RepositoryNames))
                    /\ run.config.ECRRepositories[item].LifecyclePolicy # ""
                          => ExactlyOne("PutLifecyclePolicy", item)
              /\ (op = "GetUser" /\ reported) =>
                    /\ IssuedFor("CreateUser", item) = {}
                    /\ Logged(Success("IAM user already exists",
                                      <<run.calls[k].req.UserName>>))
              /\ (/\ op = "ListPolicies" /\ reported
                  /\ FindPolicy(run.outs[k].Policies,
                                FullPolicyName(run.config.IAMUsers[item].Name,
                                               run.config.IAMUsers[item].Policies[
                                                   run.calls[k].sub])) # 0) =>
                    IF k = Len(run.calls)
                    THEN run.pc = "CreatePolicyVersion"
                    ELSE /\ run.calls[k + 1].req.op = "CreatePolicyVersion"
                         /\ run.calls[k + 1].item = item
                         /\ run.calls[k + 1].sub = run.calls[k].sub
    /\ InstanceLeftAlone

\* a bucket exists with versioning enabled and every other attribute as the spec
\* has it, the existence query reported it, and the versioning call is in flight
C21_Witness ==
    /\ run.pending.op = "PutBucketVersioning"
    /\ InDesiredState(run.config, aws)
    /\ <<run.pending.Bucket, "Enabled">> \in aws.settings.versioning
    /\ ~Failed(run.outs[Len(run.outs)])
    /\ run.calls[Len(run.outs)].req.op = "HeadBucket"

(***************************************************************************)
(* C22.  After a run that ended without a fatal error, a further run with  *)
(* the same configuration, against a provider that only this tool changes  *)
(* and that answers every call by what exists, ends without a fatal error  *)
(* and issues no creation call (bucket, repository, principal, policy,     *)
(* database instance).                                                     *)
(***************************************************************************)
\* the error codes by which the provider says what exists and what does not
ExistenceCodes ==
    {"NotFound", "RepositoryNotFoundException", "NoSuchEntity", "DBInstanceNotFound",
     "BucketAlreadyOwnedByYou", "RepositoryAlreadyExistsException",
     "EntityAlreadyExists", "DBInstanceAlreadyExists"}

\* every answer the process p got says what exists: no denial, no limit, and no
\* describe result without the instance asked for
Truthful(p) ==
    \A k \in DOMAIN p.outs :
        /\ Failed(p.outs[k]) => p.outs[k].code \in ExistenceCodes
        /\ (p.calls[k].req.op = "DescribeDBInstances" /\ ~Failed(p.outs[k]))
              => Len(p.outs[k].DBInstances) > 0

\* the process p ended with the fatal error of ProvisionResources (and not because
\* the credentials or the client could not be set up)
ProvisioningFailed(p) ==
    /\ p.pc = "exit"
    /\ p.exit = 1
    /\ p.err.msgs[1] = "Failed to provision resources"

ResourceCreations ==
    {"CreateBucket", "CreateRepository", "CreateUser", "CreatePolicy", "CreateDBInstance"}

C22_RepeatIsSafe ==
    (/\ FirstRunDone
     /\ ~flags.dryRun /\ ~flags.checkCreds
     /\ Truthful(run) /\ Truthful(twin)) =>
        /\ \A k \in DOMAIN twin.calls : twin.calls[k].req.op \notin ResourceCreations
        /\ ~ProvisioningFailed(twin)

(***************************************************************************)
(* C23.  Every CreateDBInstance request carries as its database name the   *)
(* database name of the instance spec, whatever the other fields of the    *)
(* spec are, the skip-final-snapshot flag included.                        *)
(***************************************************************************)
C23_DBNameFromSpec ==
    \A k \in DOMAIN run.calls :
        run.calls[k].req.op = "CreateDBInstance" =>
            run.calls[k].req.DBName = run.config.RDSInstances[run.calls[k].item].DBName

(***************************************************************************)
(* C24.  When a bucket spec names an encryption algorithm, the algorithm   *)
(* of the PutBucketEncryption request is the algorithm the spec names.     *)
(***************************************************************************)
C24_EncryptionAlgorithmFromSpec ==
    \A k \in DOMAIN run.calls :
        run.calls[k].req.op = "PutBucketEncryption" =>
            run.calls[k].req.SSEAlgorithm
                = run.config.S3Buckets[run.calls[k].item].Encryption

(***************************************************************************)
(* C25.  When a CORS block is present, the PutBucketCors request carries   *)
(* exactly one rule.  Its allowed methods are the methods of the spec in   *)
(* the same number and order, each upper-cased (upper-casing twice changes *)
(* nothing more); its origins, allowed headers, exposed headers and        *)
(* max-age are those of the spec, unchanged; the method list of the spec   *)
(* is left as it was loaded.                                               *)
(***************************************************************************)
C25_CORSRuleFromSpec ==
    \A k \in DOMAIN run.calls :
        run.calls[k].req.op = "PutBucketCors" =>
            LET cors == run.config.S3Buckets[run.calls[k].item].CORS
                rules == run.calls[k].req.CORSRules
            IN  /\ Len(rules) = 1
                /\ Len(rules[1].AllowedMethods) = Len(cors.AllowedMethods)
                /\ \A m \in DOMAIN cors.AllowedMethods :
                      /\ rules[1].AllowedMethods[m] = ToUpper(cors.AllowedMethods[m])
                      /\ ToUpper(rules[1].AllowedMethods[m]) = rules[1].AllowedMethods[m]
                /\ rules[1].AllowedOrigins = cors.AllowedOrigins
                /\ rules[1].AllowedHeaders = cors.AllowedHeaders
                /\ rules[1].ExposeHeaders = cors.ExposeHeaders
                /\ rules[1].MaxAgeSeconds = cors.MaxAgeSeconds
                /\ cors.AllowedMethods
                      = Unmarshal(file).S3Buckets[run.calls[k].item].CORS.AllowedMethods

(***************************************************************************)
(* C26.  Within a resource kind the resources are processed one at a time  *)
(* in the order of the list: the calls of a kind never go back to an       *)
(* earlier list position, the first call of a kind is for position 1, and  *)
(* the next position is taken only from the one before it.  The first call *)
(* issued for a resource is its existence query.                           *)
(***************************************************************************)
ExistenceQueries == {"HeadBucket", "DescribeRepositories", "GetUser", "DescribeDBInstances"}

\* the call number m is the first one for its resource
FirstForResource(m) ==
    \/ m = 1
    \/ KindOf(run.calls[m - 1].req.op) # KindOf(run.calls[m].req.op)
    \/ run.calls[m - 1].item # run.calls[m].item

C26_ListOrderOneAtATime ==
    \A m \in DOMAIN run.calls :
        KindOf(run.calls[m].req.op) # 0 =>
            /\ \A k \in 1..(m - 1) :
                  KindOf(run.calls[k].req.op) = KindOf(run.calls[m].req.op)
                      => run.calls[k].item <= run.calls[m].item
            /\ FirstForResource(m) =>
                  /\ run.calls[m].req.op \in ExistenceQueries
                  /\ IF m > 1 /\ KindOf(run.calls[m - 1].req.op) = KindOf(run.calls[m].req.op)
                     THEN run.calls[m].item = run.calls[m - 1].item + 1
                     ELSE run.calls[m].item = 1

\* two repositories, each created and given its lifecycle policy, the first
\* one before the second
C26_Witness ==
    /\ run.pc = "exit"
    /\ \E m \in DOMAIN run.calls :
          /\ m > 6
          /\ [k \in 1..6 |-> <<run.calls[m - 6 + k].req.op, run.calls[m - 6 + k].item>>]
                = << <<"DescribeRepositories", 1>>, <<"CreateRepository", 1>>,
                     <<"PutLifecyclePolicy", 1>>, <<"DescribeRepositories", 2>>,
                     <<"CreateRepository", 2>>, <<"PutLifecyclePolicy", 2>> >>

(***************************************************************************)
(* C27.  For a database instance that exists, the tool changes the         *)
(* allocated storage and nothing else.  After a describe call that reports *)
(* the instance, the only call that can follow for the instance is one     *)
(* ModifyDBInstance, and it follows only when the reported storage is not  *)
(* the storage of the spec and the instance is available: an instance      *)
(* class or an engine version other than the spec's causes no call.  The   *)
(* modify request holds the identifier, the storage of the spec and        *)
(* ApplyImmediately = true, and no other field.  After the modify call no  *)
(* further call is issued for the instance.                                *)
(***************************************************************************)
\* the storage and the status the describe answer o reports
ReportedStorage(o) ==
    IF "AllocatedStorage" \in DOMAIN o.DBInstances[1]
    THEN o.DBInstances[1].AllocatedStorage ELSE 0

ReportedStatus(o) ==
    IF "DBInstanceStatus" \in DOMAIN o.DBInstances[1]
    THEN o.DBInstances[1].DBInstanceStatus ELSE ""

\* the calls for the database instance at that position issued after call k
LaterCallsFor(item, k) ==
    {m \in DOMAIN run.calls :
        m > k /\ KindOf(run.calls[m].req.op) = 4 /\ run.calls[m].item = item}

C27_OnlyStorageIsModified ==
    /\ \A k \in DOMAIN run.outs :
          (/\ run.calls[k].req.op = "DescribeDBInstances"
           /\ ~Failed(run.outs[k])
           /\ Len(run.outs[k].DBInstances) > 0) =>
              LET item == run.calls[k].item
                  spec == run.config.RDSInstances[item]
                  due == /\ ReportedStorage(run.outs[k]) # Int32(spec.AllocatedStorage)
                         /\ ReportedStatus(run.outs[k]) = "available"
              IN  /\ LaterCallsFor(item, k) \subseteq {k + 1}
                  /\ due <=> \/ LaterCallsFor(item, k) = {k + 1}
                             \/ AboutToIssue("ModifyDBInstance", item)
                  /\ \A m \in LaterCallsFor(item, k) :
                        run.calls[m].req.op = "ModifyDBInstance"
    /\ \A m \in DOMAIN run.calls :
          run.calls[m].req.op = "ModifyDBInstance" =>
              LET spec == run.config.RDSInstances[run.calls[m].item] IN
              /\ run.calls[m].req
                    = [op |-> "ModifyDBInstance",
                       DBInstanceIdentifier |-> spec.Identifier,
                       AllocatedStorage |-> Int32(spec.AllocatedStorage),
                       ApplyImmediately |-> TRUE]
              /\ m > 1
              /\ run.calls[m - 1].req.op = "DescribeDBInstances"
              /\ run.calls[m - 1].item = run.calls[m].item
              /\ LaterCallsFor(run.calls[m].item, m) = {}
              /\ Answered(m) => ~(run.pc \in ProviderCalls /\ KindOf(run.pc) = 4
                                  /\ run.i = run.calls[m].item)

\* an instance was reported with another class, another engine version and
\* another storage than the spec's; its storage was modified, and the run ended
C27_Witness ==
    /\ run.pc = "exit"
    /\ \E m \in DOMAIN run.outs :
          /\ run.calls[m].req.op = "ModifyDBInstance"
          /\ ~Failed(run.outs[m])
          /\ "DBInstanceClass" \in DOMAIN run.outs[m - 1].DBInstances[1]
          /\ run.outs[m - 1].DBInstances[1].DBInstanceClass
                # run.config.RDSInstances[run.calls[m].item].InstanceClass
          /\ run.config.RDSInstances[run.calls[m].item].EngineVersion \notin
                {"", run.outs[m - 1].DBInstances[1].EngineVersion}

(***************************************************************************)
(* C28.  The derived full names <principalName>-<policyName> of two policy *)
(* entries that belong to different principals differ, and so the upsert   *)
(* for a policy of one principal never adds a version to a policy that was *)
(* created for another principal.                                          *)
(***************************************************************************)
C28_NoCollisionAcrossPrincipals ==
    /\ run.config # NoConfig =>
          \A u, v \in DOMAIN run.config.IAMUsers :
              run.config.IAMUsers[u].Name # run.config.IAMUsers[v].Name =>
                  \A p \in DOMAIN run.config.IAMUsers[u].Policies,
                     q \in DOMAIN run.config.IAMUsers[v].Policies :
                      FullPolicyName(run.config.IAMUsers[u].Name,
                                     run.config.IAMUsers[u].Policies[p])
                          # FullPolicyName(run.config.IAMUsers[v].Name,
                                           run.config.IAMUsers[v].Policies[q])
    /\ \A k, m \in DOMAIN run.calls :
          (/\ k < m
           /\ run.calls[k].req.op = "CreatePolicy"
           /\ Answered(k) /\ ~Failed(run.outs[k])
           /\ run.calls[m].req.op = "CreatePolicyVersion"
           /\ run.calls[m].req.PolicyArn = PolicyArn(run.calls[k].req.PolicyName)) =>
              run.config.IAMUsers[run.calls[k].item].Name
                  = run.config.IAMUsers[run.calls[m].item].Name

(***************************************************************************)
(* C29.  The configuration is read-only input: no reconciler changes a     *)
(* field of it, so from the moment it is loaded to the end of the run,     *)
(* whether ProvisionResources returns an error or not, the configuration   *)
(* the process holds is the one that was loaded from the document.         *)
(***************************************************************************)
C29_ConfigurationUnchanged ==
    run.config # NoConfig => run.config = Unmarshal(file)

\* ProvisionResources has returned after a CORS call whose methods are not
\* written as the spec writes them, and the spec's methods are as loaded
C29_Witness ==
    /\ run.pc = "exit"
    /\ \E k \in DOMAIN run.outs :
          /\ run.calls[k].req.op = "PutBucketCors"
          /\ run.calls[k].req.CORSRules[1].AllowedMethods
                # run.config.S3Buckets[run.calls[k].item].CORS.AllowedMethods

(***************************************************************************)
(* C30.  When ProvisionResources returns no error, every bucket,           *)
(* repository, principal and database instance of the configuration was    *)
(* reported by its existence query (a database instance: the describe      *)
(* result held it) or was created by a create call that succeeded.         *)
(***************************************************************************)
\* a call with that name for that list position succeeded
Succeeded(op, item) ==
    \E k \in IssuedFor(op, item) : Answered(k) /\ ~Failed(run.outs[k])

\* the describe call for that list position succeeded and its result held an instance
Described(item) ==
    \E k \in IssuedFor("DescribeDBInstances", item) :
        Answered(k) /\ ~Failed(run.outs[k]) /\ Len(run.outs[k].DBInstances) > 0

C30_SuccessAccountsForAll ==
    (run.pc = "exit" /\ run.exit = 0 /\ ~flags.dryRun /\ ~flags.checkCreds) =>
        /\ \A item \in DOMAIN run.config.S3Buckets :
              Succeeded("HeadBucket", item) \/ Succeeded("CreateBucket", item)
        /\ \A item \in DOMAIN run.config.ECRRepositories :
              Succeeded("DescribeRepositories", item)
                  \/ Succeeded("CreateRepository", item)
        /\ \A item \in DOMAIN run.config.IAMUsers :
              Succeeded("GetUser", item) \/ Succeeded("CreateUser", item)
        /\ \A item \in DOMAIN run.config.RDSInstances :
              Described(item) \/ Succeeded("CreateDBInstance", item)

(***************************************************************************)
(* C31.  Every run terminates: provided each provider call returns, the    *)
(* run reaches its final state (exit 0 or exit 1), and the provider calls  *)
(* it has issued are bounded by the size of the configuration: at most 6   *)
(* calls per bucket, 3 per repository, 2 per principal plus 3 per policy,  *)
(* and 2 per database instance; no call is issued twice for the same       *)
(* resource (the tool has no retry loop of its own).                       *)
(***************************************************************************)
\* the calls of that resource kind issued so far
CallsOfKind(kind) ==
    Cardinality({m \in DOMAIN run.calls : KindOf(run.calls[m].req.op) = kind})

RECURSIVE PolicyCount(_)
\* the policies of all the principals of the list
PolicyCount(users) ==
    IF users = <<>> THEN 0 ELSE Len(Head(users).Policies) + PolicyCount(Tail(users))

CallsWithinBound ==
    IF run.config = NoConfig
    THEN \A m \in DOMAIN run.calls : KindOf(run.calls[m].req.op) = 0
    ELSE /\ CallsOfKind(1) <= 6 * Len(run.config.S3Buckets)
         /\ CallsOfKind(2) <= 3 * Len(run.config.ECRRepositories)
         /\ CallsOfKind(3) <= 2 * Len(run.config.IAMUsers)
                              + 3 * PolicyCount(run.config.IAMUsers)
         /\ CallsOfKind(4) <= 2 * Len(run.config.RDSInstances)

NoCallTwice ==
    \A m, n \in DOMAIN run.calls :
        (/\ run.calls[m].req.op = run.calls[n].req.op
         /\ run.calls[m].item = run.calls[n].item
         /\ run.calls[m].sub = run.calls[n].sub) => m = n

C31_EveryRunTerminates ==
    /\ [](CallsWithinBound /\ NoCallTwice)
    /\ <>(run.pc = "exit")

\* the bound is met: a run has ended well after all the 6 calls of a bucket that
\* did not exist and has every setting
C31_Witness ==
    /\ run.pc = "exit"
    /\ run.exit = 0
    /\ run.config # NoConfig
    /\ Len(run.config.S3Buckets) = 1
    /\ CallsOfKind(1) = 6 * Len(run.config.S3Buckets)
    /\ CallsWithinBound

====
